---- MODULE Spec2Model ----
(***************************************************************************)
(* Idempotent incremental ingestion of Search Console rows into BigQuery.  *)
(*                                                                         *)
(* Two scripts of the repository are modelled so far:                      *)
(*   prog = "gsc_to_bq"  src/gsc_to_bq.py (Rev 1: one dimension list, a    *)
(*                       bounded retry counter, one upload per page)       *)
(*   prog = "web"        src/src/scripts/gsc_to_bq_searchtype_web_         *)
(*                       fullfetch.py (Rev 6.9: main with four dimension   *)
(*                       batches, the No-Index batch, Batch 6 and the      *)
(*                       sitewide batch)                                   *)
(*                                                                         *)
(* Text is a sequence of one-character strings, so that strip(), lower()   *)
(* and rstrip('/') are computed character by character.  None is the       *)
(* one-element sequence <<"<None>">>, which no text of the model contains. *)
(* sha256(...).hexdigest() is modelled as an injective tagging of the      *)
(* string that is hashed (no collisions).                                  *)
(***************************************************************************)
EXTENDS Naturals, Integers, Sequences, FiniteSets, TLC

\* ------------------------------------------------------------------ bounds
\* the number of runs of gsc_to_bq.py a behaviour may start
MaxRuns == 2
\* rowLimit of every request (25000 in the scripts), scaled down
ROW_LIMIT == 2
\* the largest result set the API holds for one dimension list: a full page
\* and one row more
MaxRows == ROW_LIMIT + 1
\* gsc_to_bq.py gives up at the (MAX_RETRIES + 1)-th failed request
MAX_RETRIES == 3
\* the web script repeats a failed request for ever: the times in a row a
\* request raises, and the load jobs of one run that fail, in a behaviour
MaxFailures == 1

ProcIds == {1, 2}

\* ------------------------------------------------------------------- text
None == <<"<None>">>

UpperChars == <<"A","B","C","D","E","F","G","H","I","J","K","L","M",
                "N","O","P","Q","R","S","T","U","V","W","X","Y","Z">>

LowerChars == <<"a","b","c","d","e","f","g","h","i","j","k","l","m",
                "n","o","p","q","r","s","t","u","v","w","x","y","z">>

Whitespace == {" "}

\* str.lower(), one character
LowerChar(c) ==
    IF \E i \in 1..26 : UpperChars[i] = c
    THEN LowerChars[CHOOSE i \in 1..26 : UpperChars[i] = c]
    ELSE c

\* str.upper(), one character
UpperChar(c) ==
    IF \E i \in 1..26 : LowerChars[i] = c
    THEN UpperChars[CHOOSE i \in 1..26 : LowerChars[i] = c]
    ELSE c

\* str.upper()
upper(s) == [i \in 1..Len(s) |-> UpperChar(s[i])]

\* str.lower()
lower(s) == [i \in 1..Len(s) |-> LowerChar(s[i])]

RECURSIVE lstrip(_, _)
\* str.lstrip(chars)
lstrip(s, cs) ==
    IF s # <<>> /\ Head(s) \in cs THEN lstrip(Tail(s), cs) ELSE s

RECURSIVE rstrip(_, _)
\* str.rstrip(chars): every trailing character of cs goes, not only one
rstrip(s, cs) ==
    IF s # <<>> /\ s[Len(s)] \in cs
    THEN rstrip(SubSeq(s, 1, Len(s) - 1), cs)
    ELSE s

\* str.strip()
strip(s) == rstrip(lstrip(s, Whitespace), Whitespace)

\* s[:n]
Take(s, n) == SubSeq(s, 1, IF Len(s) < n THEN Len(s) ELSE n)

\* (v or ''): None and '' both give ''
OrEmpty(v) == IF v = None THEN <<>> ELSE v

\* sep.join(parts)
RECURSIVE join(_, _)
join(sep, parts) ==
    IF parts = <<>> THEN <<>>
    ELSE IF Len(parts) = 1 THEN parts[1]
    ELSE parts[1] \o sep \o join(sep, Tail(parts))

\* hashlib.sha256(s.encode('utf-8')).hexdigest(), collision-free
sha256(s) == <<"sha256:">> \o s

\* SeqsUpTo(S, n): the sequences over S of length at most n
SeqsUpTo(S, n) == UNION {[1..k -> S] : k \in 0..n}

\* ------------------------------------------------------------ the API rows
\* one row of a searchanalytics response: its 'keys' and its metrics (clicks
\* stands for clicks, impressions, ctr and position, which the scripts copy
\* side by side and never read)
ApiRow(ks, c) == [keys |-> ks, clicks |-> c]

D1 == <<"2","0","2","5","-","0","9","-","0","1">>

\* the rows the API may hold for ['date','query','page']: the second row is
\* the first one up to letter case, a trailing blank and a trailing '/', with
\* other metrics
RawRowsRev1 ==
    { ApiRow(<<D1, <<"a">>, <<"/","x">> >>, 1),
      ApiRow(<<D1, <<"A"," ">>, <<"/","x","/">> >>, 2),
      ApiRow(<<D1, <<"b">>, <<"/","x">> >>, 1) }

Rev1Dims == <<"date", "query", "page">>

\* ---------------------------------------------------------------- state
VARIABLES
    prog,           \* the script that is deployed: "gsc_to_bq" or "web"
    procs,          \* the processes that may run it
    table,          \* the destination table: the stored rows, in load order
    tableExists,    \* whether the destination table has been created
    api,            \* per dimension list, the result set the API serves
    debug,          \* DEBUG_MODE (--debug) of the web script
    pc,             \* per process: where its run stands
    run,            \* per process: the runs it has started
    existing_keys,  \* per process: the set get_existing_keys returned, as mutated
    start_row,      \* per process: startRow of the next request
    retry_count,    \* per process: failed requests so far (gsc_to_bq.py)
    all_new_rows,   \* per process: the rows accepted as new in this run
    batch,          \* per process: the dimension batch fetch_gsc_data is in (web)
    pending_rows,   \* per process: noindex_rows, then all_rows of Batch 6 (web)
    inserted,       \* per process: inserted_main, inserted_noindex, inserted_b4
    obs,            \* per process: what the run has done so far (observers)
    records,        \* the records a key function is applied to, outside a run
    results         \* the keys it returned for them, call after call

\* what no action of a run changes, and what only the web script uses
config == <<prog, procs, api, debug, records, results>>

webvars == <<batch, pending_rows, inserted>>

vars == <<config, table, tableExists, pc, run, existing_keys, start_row,
          retry_count, all_new_rows, webvars, obs>>

\* --------------------------------------------------- src/gsc_to_bq.py: keys
\* urllib.parse.urlparse on a URL with no scheme and no params (':' and ';'
\* are not in the model's alphabet): a leading '//' starts the netloc, which
\* runs to the next '/', '?' or '#'; the fragment is what follows the first
\* '#', the query what follows the first '?' before it, the path the rest.

\* the index of the first element of s from position n on that is in cs, or 0
FirstIn(s, n, cs) ==
    IF \E i \in n..Len(s) : s[i] \in cs
    THEN CHOOSE i \in n..Len(s) :
           s[i] \in cs /\ \A j \in n..(i - 1) : s[j] \notin cs
    ELSE 0

UrlHasNetloc(url) == Len(url) >= 2 /\ url[1] = "/" /\ url[2] = "/"

UrlNetlocLen(url) ==
    IF UrlHasNetloc(url)
    THEN IF FirstIn(url, 3, {"/", "?", "#"}) # 0
         THEN FirstIn(url, 3, {"/", "?", "#"}) - 3
         ELSE Len(url) - 2
    ELSE 0

UrlNetloc(url) ==
    IF UrlHasNetloc(url) THEN SubSeq(url, 3, 2 + UrlNetlocLen(url)) ELSE <<>>

\* the URL after the netloc and before the fragment
UrlNoFragment(url) ==
    LET rest == IF UrlHasNetloc(url)
                THEN SubSeq(url, 3 + UrlNetlocLen(url), Len(url))
                ELSE url
    IN  IF FirstIn(rest, 1, {"#"}) # 0
        THEN SubSeq(rest, 1, FirstIn(rest, 1, {"#"}) - 1)
        ELSE rest

UrlPath(url) ==
    LET u == UrlNoFragment(url)
    IN  IF FirstIn(u, 1, {"?"}) # 0
        THEN SubSeq(u, 1, FirstIn(u, 1, {"?"}) - 1)
        ELSE u

UrlQuery(url) ==
    LET u == UrlNoFragment(url)
    IN  IF FirstIn(u, 1, {"?"}) # 0
        THEN SubSeq(u, FirstIn(u, 1, {"?"}) + 1, Len(u))
        ELSE <<>>

\* str.split(sep): the pieces of s between the occurrences of c
RECURSIVE split(_, _)
split(s, c) ==
    IF FirstIn(s, 1, {c}) = 0 THEN <<s>>
    ELSE <<SubSeq(s, 1, FirstIn(s, 1, {c}) - 1)>>
         \o split(SubSeq(s, FirstIn(s, 1, {c}) + 1, Len(s)), c)

\* the characters quote_plus leaves as they are
AlwaysSafe ==
    {UpperChars[i] : i \in 1..26} \cup {LowerChars[i] : i \in 1..26}
    \cup {"0","1","2","3","4","5","6","7","8","9","_",".","-","~"}

\* the %XX escape of the reserved characters of the model's alphabet
PercentCode ==
    ("/" :> <<"%","2","F">>) @@ ("?" :> <<"%","3","F">>)
    @@ ("=" :> <<"%","3","D">>) @@ ("&" :> <<"%","2","6">>)
    @@ ("#" :> <<"%","2","3">>) @@ ("+" :> <<"%","2","B">>)
    @@ ("%" :> <<"%","2","5">>)

\* urllib.parse.quote_plus(s): ' ' becomes '+', a character that is not
\* always safe its %XX escape
RECURSIVE quote_plus(_)
quote_plus(s) ==
    IF s = <<>> THEN <<>>
    ELSE (IF Head(s) \in AlwaysSafe THEN <<Head(s)>>
          ELSE IF Head(s) = " " THEN <<"+">>
          ELSE PercentCode[Head(s)])
         \o quote_plus(Tail(s))

\* urllib.parse.unquote(s): a %XX escape becomes its character; a '%' that
\* starts no escape stays
RECURSIVE unquote(_)
unquote(s) ==
    IF s = <<>> THEN <<>>
    ELSE IF Len(s) >= 3
            /\ \E c \in DOMAIN PercentCode : PercentCode[c] = SubSeq(s, 1, 3)
         THEN <<CHOOSE c \in DOMAIN PercentCode : PercentCode[c] = SubSeq(s, 1, 3)>>
              \o unquote(SubSeq(s, 4, Len(s)))
         ELSE <<Head(s)>> \o unquote(Tail(s))

\* s.replace('+', ' ')
PlusToSpace(s) == [i \in 1..Len(s) |-> IF s[i] = "+" THEN " " ELSE s[i]]

\* the (name, value) pairs of a list of 'name=value' fields, as parse_qsl
\* with keep_blank_values=True makes them: an empty field is skipped, a field
\* without '=' has the value ''
RECURSIVE QslPairs(_)
QslPairs(fields) ==
    IF fields = <<>> THEN <<>>
    ELSE LET f == Head(fields)
             eq == FirstIn(f, 1, {"="})
             name == IF eq = 0 THEN f ELSE SubSeq(f, 1, eq - 1)
             value == IF eq = 0 THEN <<>> ELSE SubSeq(f, eq + 1, Len(f))
         IN  (IF f = <<>> THEN <<>>
              ELSE << <<unquote(PlusToSpace(name)),
                        unquote(PlusToSpace(value))>> >>)
             \o QslPairs(Tail(fields))

\* urllib.parse.parse_qsl(qs, keep_blank_values=True)
parse_qsl(qs) == IF qs = <<>> THEN <<>> ELSE QslPairs(split(qs, "&"))

\* k.startswith('utm_')
StartsWithUtm(k) == Len(k) >= 4 /\ SubSeq(k, 1, 4) = <<"u","t","m","_">>

\* cleaned_qs: the pairs whose name does not start with 'utm_'
RECURSIVE cleaned_qs(_)
cleaned_qs(qs) ==
    IF qs = <<>> THEN <<>>
    ELSE (IF StartsWithUtm(Head(qs)[1]) THEN <<>> ELSE <<Head(qs)>>)
         \o cleaned_qs(Tail(qs))

\* urllib.parse.urlencode(pairs)
urlencode(pairs) ==
    join(<<"&">>,
         [i \in 1..Len(pairs) |->
            quote_plus(pairs[i][1]) \o <<"=">> \o quote_plus(pairs[i][2])])

\* normalize_url: strip, lower-case the scheme and the netloc (not the path),
\* drop the trailing '/' characters of the path, drop the fragment, decode
\* and encode the query again without its utm_ fields, and rebuild
normalize_url(url) ==
    IF url = <<>> THEN <<>>
    ELSE LET u == strip(url)
             netloc == lower(UrlNetloc(u))
             path == rstrip(UrlPath(u), {"/"})
             query == urlencode(cleaned_qs(parse_qsl(UrlQuery(u))))
             hostpath == IF netloc # <<>> THEN <<"/", "/">> \o netloc \o path
                         ELSE path
         IN  IF query # <<>> THEN hostpath \o <<"?">> \o query ELSE hostpath

\* stable_key(row) of gsc_to_bq.py, row = {'Date', 'Query', 'Page'}
stable_key(row) ==
    LET query == lower(strip(OrEmpty(row.Query)))
        page == normalize_url(OrEmpty(row.Page))
        date == Take(row.Date, 10)
    IN  sha256(join(<<"|">>, <<query, page, date>>))

\* ------------------------------------------------- the destination table
\* a key read that misses the row stored last
KeysOfAllButLast(tbl) == {tbl[i].unique_key : i \in 1..(Len(tbl) - 1)}

\* the unique_key values stored in the table
KeysOf(tbl) == {tbl[i].unique_key : i \in 1..Len(tbl)}

\* a load job with write disposition WRITE_TRUNCATE
WriteTruncate(tbl, rows) == rows

\* a load job with write disposition WRITE_APPEND (the default of
\* load_table_from_dataframe, and the one upload_to_bq of the web script sets)
WriteAppend(tbl, rows) == tbl \o rows

\* the page of a result set a request with this startRow gets
Page(rs, startRow) ==
    SubSeq(rs, startRow + 1,
           IF Len(rs) < startRow + ROW_LIMIT THEN Len(rs) ELSE startRow + ROW_LIMIT)

\* ---------------------------------------------------------- observers
\* obs[p] records what the current run of p has done; no action reads it to
\* decide what the script does.
\*   keys0      the set get_existing_keys returned in this run (the first
\*              time, when it is called more than once)
\*   nread      calls of get_existing_keys in this run
\*   readOk     the existing-key read succeeded
\*   uploadsOk  every upload of the run succeeded so far
\*   aborted    the fetch loop was left by the retry bound
\*   nreq       requests issued in the current batch
\*   last       the latest request of the current batch and how it ended:
\*              status "none" (no request yet), "ok" (n rows came back),
\*              "transient" or "fatal" (the call raised)
\*   fetched    rows returned by the successful requests of the current batch
\*   nfail      times the request that is being repeated has raised
\*              (gsc_to_bq.py counts all failed requests in retry_count)
\*   nupfail    load jobs of the run that raised
\*   sawFatal   a request of the run raised a fatal error (gsc_to_bq.py)
\*   accepted   the unique_key of every row accepted as new, in order
\*   inserted   rows this run has written to the table
\*   upload     upload_to_bq on the rows the latest page (or batch) accepted:
\*              the size of the frame, the value returned, the rows the
\*              table gained, and whether the load job raised.  For an empty
\*              frame the callers skip the call, which is the same as the
\*              first case of upload_to_bq: nothing written, 0 counted.
\*              keys is the unique_key column of the frame; gsc_to_bq.py
\*              records called = FALSE for a page whose call it skipped.
\*   prevClean  the previous run of p ended with no abort, no failed read and
\*              no failed upload
\*   lost       the unique_key of the rows of the run whose load job raised
\*              (gsc_to_bq.py)
NoReq == [startRow |-> 0, dims |-> <<>>, status |-> "none", n |-> 0]

NoUpload == [called |-> FALSE, size |-> 0, returned |-> 0, written |-> 0,
             failed |-> FALSE, keys |-> <<>>]

\* the record of one call of upload_to_bq: rows the frame, up its outcome
UploadObs(tbl, rows, up, ok) ==
    [called |-> TRUE, size |-> Len(rows), returned |-> up.inserted,
     written |-> Len(up.table) - Len(tbl), failed |-> rows # <<>> /\ ~ok,
     keys |-> <<>> \o [i \in 1..Len(rows) |-> rows[i].unique_key]]

ObsInit ==
    [keys0 |-> {}, nread |-> 0, readOk |-> TRUE, uploadsOk |-> TRUE, aborted |-> FALSE,
     nreq |-> 0, last |-> NoReq, fetched |-> 0, nfail |-> 0,
     nupfail |-> 0, sawFatal |-> FALSE, accepted |-> <<>>, inserted |-> 0,
     upload |-> NoUpload, prevClean |-> FALSE, lost |-> {}]

\* the unique_key column of a list of rows
KeySeq(rows) == [i \in 1..Len(rows) |-> rows[i].unique_key]

\* the two ways a request can raise: a timeout or rate limit, and an
\* authentication or permission failure (HttpError 401/403)
ErrorKinds == {"transient", "fatal"}

\* ------------------------------------------------- src/gsc_to_bq.py: run
\* python gsc_to_bq.py: a new process of the script starts
StartRun(p) ==
    /\ prog = "gsc_to_bq"
    /\ p \in procs
    /\ pc[p] \in {"idle", "done"}
    /\ run[p] < MaxRuns
    /\ pc' = [pc EXCEPT ![p] = "ensure_table"]
    /\ run' = [run EXCEPT ![p] = @ + 1]
    /\ existing_keys' = [existing_keys EXCEPT ![p] = {}]
    /\ start_row' = [start_row EXCEPT ![p] = 0]
    /\ retry_count' = [retry_count EXCEPT ![p] = 0]
    /\ all_new_rows' = [all_new_rows EXCEPT ![p] = <<>>]
    /\ obs' = [obs EXCEPT ![p] =
                 [ObsInit EXCEPT !.prevClean =
                     /\ pc[p] = "done"
                     /\ ~obs[p].aborted /\ obs[p].readOk /\ obs[p].uploadsOk]]
    /\ UNCHANGED <<config, table, tableExists, webvars>>

\* ensure_table: get_table, and create_table when get_table raises
EnsureTable(p) ==
    /\ prog = "gsc_to_bq"
    /\ pc[p] = "ensure_table"
    /\ tableExists' = TRUE
    /\ pc' = [pc EXCEPT ![p] = "get_existing_keys"]
    /\ UNCHANGED <<config, table, run, existing_keys, start_row,
                   retry_count, all_new_rows, webvars, obs>>

\* get_existing_keys, the query and the iteration succeed: every stored key
GetExistingKeysOk(p) ==
    /\ prog = "gsc_to_bq"
    /\ pc[p] = "get_existing_keys"
    /\ existing_keys' = [existing_keys EXCEPT ![p] = KeysOf(table)]
    /\ obs' = [obs EXCEPT ![p].keys0 = KeysOf(table), ![p].readOk = TRUE,
                          ![p].nread = @ + 1]
    /\ pc' = [pc EXCEPT ![p] = "fetch"]
    /\ UNCHANGED <<config, table, tableExists, run, start_row,
                   retry_count, all_new_rows, webvars>>

\* get_existing_keys, bq_client.query or the row iterator raises: the except
\* clause prints a warning and the keys added before the exception are
\* returned (none when the query itself raised)
GetExistingKeysFail(p) ==
    /\ prog = "gsc_to_bq"
    /\ pc[p] = "get_existing_keys"
    /\ \E S \in SUBSET KeysOf(table) :
         /\ existing_keys' = [existing_keys EXCEPT ![p] = S]
         /\ obs' = [obs EXCEPT ![p].keys0 = S, ![p].readOk = FALSE,
                                   ![p].nread = @ + 1]
    /\ pc' = [pc EXCEPT ![p] = "fetch"]
    /\ UNCHANGED <<config, table, tableExists, run, start_row,
                   retry_count, all_new_rows, webvars>>

\* the row fetch_gsc_data of gsc_to_bq.py appends to all_new_rows
NewRowRev1(r, key) ==
    [Date |-> r.keys[1], Query |-> r.keys[2], Page |-> r.keys[3],
     Clicks |-> r.clicks, unique_key |-> key]

\* row_dict of a response row, the argument of stable_key
RowDictRev1(r) == [Date |-> r.keys[1], Query |-> r.keys[2], Page |-> r.keys[3]]

\* a loop over one page that never adds an accepted key to existing_keys
RECURSIVE DedupRev1NoAdd(_, _, _)
DedupRev1NoAdd(rows, existing, acc) ==
    IF rows = <<>> THEN [existing |-> existing, new |-> acc]
    ELSE LET r == Head(rows)
             key == stable_key(RowDictRev1(r))
         IN  IF key \notin existing
             THEN DedupRev1NoAdd(Tail(rows), existing,
                                 Append(acc, NewRowRev1(r, key)))
             ELSE DedupRev1NoAdd(Tail(rows), existing, acc)

\* a loop over one page that adds the accepted keys to existing_keys only
\* after the last row of the page
RECURSIVE DedupRev1AddAtEnd(_, _, _)
DedupRev1AddAtEnd(rows, existing, acc) ==
    IF rows = <<>>
    THEN [existing |-> existing \cup {acc[i].unique_key : i \in 1..Len(acc)},
          new |-> acc]
    ELSE LET r == Head(rows)
             key == stable_key(RowDictRev1(r))
         IN  IF key \notin existing
             THEN DedupRev1AddAtEnd(Tail(rows), existing,
                                    Append(acc, NewRowRev1(r, key)))
             ELSE DedupRev1AddAtEnd(Tail(rows), existing, acc)

\* a loop over one page whose key covers the clicks of the row as well
RECURSIVE DedupRev1KeyWithClicks(_, _, _)
DedupRev1KeyWithClicks(rows, existing, acc) ==
    IF rows = <<>> THEN [existing |-> existing, new |-> acc]
    ELSE LET r == Head(rows)
             key == Append(stable_key(RowDictRev1(r)),
                           IF r.clicks = 1 THEN "1" ELSE "2")
         IN  IF key \notin existing
             THEN DedupRev1KeyWithClicks(Tail(rows), existing \cup {key},
                                         Append(acc, NewRowRev1(r, key)))
             ELSE DedupRev1KeyWithClicks(Tail(rows), existing, acc)

\* the for loop over one page: a row is accepted when its key is not in
\* existing_keys, and its key is added at once
RECURSIVE DedupRev1(_, _, _)
DedupRev1(rows, existing, acc) ==
    IF rows = <<>> THEN [existing |-> existing, new |-> acc]
    ELSE LET r == Head(rows)
             key == stable_key(RowDictRev1(r))
         IN  IF key \notin existing
             THEN DedupRev1(Tail(rows), existing \cup {key},
                            Append(acc, NewRowRev1(r, key)))
             ELSE DedupRev1(Tail(rows), existing, acc)

\* a retry test that allows one failure fewer
RetriesExhaustedEarly(n) == n >= MAX_RETRIES

\* the retry test of the except clause, after retry_count += 1
RetriesExhausted(n) == n > MAX_RETRIES

\* an except clause that moves on to the next page
FetchFailSkipsPage(p) ==
    /\ prog = "gsc_to_bq"
    /\ pc[p] = "fetch"
    /\ \E kind \in ErrorKinds :
         obs' = [obs EXCEPT
                   ![p].nreq = @ + 1,
                   ![p].last = [startRow |-> start_row[p], dims |-> Rev1Dims,
                                status |-> kind, n |-> 0],
                   ![p].sawFatal = @ \/ kind = "fatal",
                   ![p].nfail = @ + 1,
                   ![p].aborted = RetriesExhausted(retry_count[p] + 1)]
    /\ retry_count' = [retry_count EXCEPT ![p] = @ + 1]
    /\ start_row' = [start_row EXCEPT ![p] = @ + ROW_LIMIT]
    /\ pc' = [pc EXCEPT ![p] =
                IF RetriesExhausted(retry_count[p] + 1) THEN "done" ELSE "fetch"]
    /\ UNCHANGED <<config, table, tableExists, run, existing_keys,
                   all_new_rows, webvars>>

\* one iteration of the while loop whose API call raises: count it, and leave
\* the loop when the bound is exceeded, else sleep and repeat the request
FetchFail(p) ==
    /\ prog = "gsc_to_bq"
    /\ pc[p] = "fetch"
    /\ \E kind \in ErrorKinds :
         obs' = [obs EXCEPT
                   ![p].nreq = @ + 1,
                   ![p].last = [startRow |-> start_row[p], dims |-> Rev1Dims,
                                status |-> kind, n |-> 0],
                   ![p].sawFatal = @ \/ kind = "fatal",
                   ![p].nfail = @ + 1,
                   ![p].aborted = RetriesExhausted(retry_count[p] + 1)]
    /\ retry_count' = [retry_count EXCEPT ![p] = @ + 1]
    /\ pc' = [pc EXCEPT ![p] =
                IF RetriesExhausted(retry_count[p] + 1) THEN "done" ELSE "fetch"]
    /\ UNCHANGED <<config, table, tableExists, run, existing_keys,
                   start_row, all_new_rows, webvars>>

\* the rows of a frame whose key is not stored yet
RECURSIVE RowsNotStored(_, _)
RowsNotStored(tbl, rows) ==
    IF rows = <<>> THEN <<>>
    ELSE (IF Head(rows).unique_key \in KeysOf(tbl) THEN <<>> ELSE <<Head(rows)>>)
         \o RowsNotStored(tbl, Tail(rows))

\* a load that merges on unique_key: a row whose key is stored is skipped
upload_to_bq_rev1_Merge(tbl, rows, ok) ==
    IF rows = <<>> THEN [table |-> tbl, inserted |-> 0]
    ELSE IF ok THEN [table |-> WriteAppend(tbl, RowsNotStored(tbl, rows)),
                     inserted |-> Len(RowsNotStored(tbl, rows))]
    ELSE [table |-> tbl, inserted |-> 0]

\* a load job that raises after it has stored the first row of the frame
upload_to_bq_rev1_PartialLoad(tbl, rows, ok) ==
    IF rows = <<>> THEN [table |-> tbl, inserted |-> 0]
    ELSE IF ok THEN [table |-> WriteAppend(tbl, rows), inserted |-> Len(rows)]
    ELSE [table |-> WriteAppend(tbl, <<Head(rows)>>), inserted |-> 0]

\* upload_to_bq(df) of gsc_to_bq.py: 0 for an empty frame; else the load job,
\* which loads the whole frame or raises and loads nothing (ok: it succeeds);
\* job.output_rows is the number of rows the job loaded
upload_to_bq_rev1(tbl, rows, ok) ==
    IF rows = <<>> THEN [table |-> tbl, inserted |-> 0]
    ELSE IF ok THEN [table |-> WriteAppend(tbl, rows), inserted |-> Len(rows)]
    ELSE [table |-> tbl, inserted |-> 0]

\* a slice that takes the whole list
LastRowsAll(rows, n) == rows

\* all_new_rows[-batch_new_count:], for batch_new_count > 0
LastRows(rows, n) == SubSeq(rows, Len(rows) - n + 1, Len(rows))

\* a paging test that takes a full page for the last one
LastPageWhenFull(n) == n <= ROW_LIMIT

\* a paging test that is off by one
LastPageOffByOne(n) == n < ROW_LIMIT - 1

\* the paging test after a page has been processed
LastPage(n) == n < ROW_LIMIT

\* one iteration of the while loop whose API call returns: stop on an empty
\* page; else filter the page, upload its new rows (the load job succeeds or
\* raises inside upload_to_bq, which then returns 0), and stop on a short page
\* r['keys'][0], r['keys'][1], r['keys'][2]: a row with no 'keys' (modelled
\* as no key at all) raises KeyError, one with fewer than three IndexError
RowRaises(r) == Len(r.keys) < 3

\* the rows of a page before the first one that raises
RECURSIVE RowsBeforeRaise(_)
RowsBeforeRaise(rows) ==
    IF rows = <<>> \/ RowRaises(Head(rows)) THEN <<>>
    ELSE <<Head(rows)>> \o RowsBeforeRaise(Tail(rows))

FetchPage(p) ==
    /\ prog = "gsc_to_bq"
    /\ pc[p] = "fetch"
    /\ LET rows == Page(api[Rev1Dims], start_row[p])
           d == DedupRev1(rows, existing_keys[p], <<>>)
       IN  /\ \A i \in 1..Len(rows) : ~RowRaises(rows[i])
           /\ existing_keys' = [existing_keys EXCEPT ![p] = d.existing]
           /\ all_new_rows' = [all_new_rows EXCEPT ![p] = @ \o d.new]
           /\ \E ok \in BOOLEAN,
                 df_batch \in {IF Len(d.new) > 0
                               THEN LastRows(all_new_rows[p] \o d.new, Len(d.new))
                               ELSE <<>>} :
                LET batch_new_count == Len(df_batch)
                    up == upload_to_bq_rev1(table, df_batch, ok)
                IN  /\ df_batch = <<>> => ok
                    /\ table' = up.table
                    /\ obs' = [obs EXCEPT
                         ![p].nreq = @ + 1,
                         ![p].last = [startRow |-> start_row[p], dims |-> Rev1Dims,
                                      status |-> "ok", n |-> Len(rows)],
                         ![p].fetched = @ + Len(rows),
                         ![p].nfail = 0,
                         ![p].accepted = @ \o KeySeq(d.new),
                         ![p].uploadsOk = @ /\ ok,
                         ![p].nupfail = @ + (IF ok THEN 0 ELSE 1),
                         ![p].inserted = @ + (Len(up.table) - Len(table)),
                         ![p].upload = IF batch_new_count > 0
                                        THEN UploadObs(table, df_batch, up, ok)
                                        ELSE NoUpload,
                         ![p].lost = IF ok THEN @ ELSE @ \cup KeysOf(df_batch)]
           /\ IF rows = <<>> \/ LastPage(Len(rows))
              THEN /\ pc' = [pc EXCEPT ![p] = "done"]
                   /\ start_row' = start_row
              ELSE /\ pc' = pc
                   /\ start_row' = [start_row EXCEPT ![p] = @ + Len(rows)]
    /\ UNCHANGED <<config, tableExists, run, retry_count, webvars>>

\* ------------------------------------------------ src/gsc_to_bq.py: Spec
\* the inserted counts of main before any batch has returned
NoneInserted == [main |-> 0, noindex |-> 0, b4 |-> 0, site |-> 0]

Idle == [p \in ProcIds |-> "idle"]

Init ==
    /\ records = <<>>
    /\ results = <<>>
    /\ prog = "gsc_to_bq"
    /\ procs = {1}
    /\ table = <<>>
    /\ tableExists \in BOOLEAN
    /\ api \in {(Rev1Dims :> rs) : rs \in SeqsUpTo(RawRowsRev1, MaxRows)}
    /\ debug = FALSE
    /\ pc = Idle
    /\ run = [p \in ProcIds |-> 0]
    /\ existing_keys = [p \in ProcIds |-> {}]
    /\ start_row = [p \in ProcIds |-> 0]
    /\ retry_count = [p \in ProcIds |-> 0]
    /\ all_new_rows = [p \in ProcIds |-> <<>>]
    /\ batch = [p \in ProcIds |-> 1]
    /\ pending_rows = [p \in ProcIds |-> <<>>]
    /\ inserted = [p \in ProcIds |-> NoneInserted]
    /\ obs = [p \in ProcIds |-> ObsInit]

Next ==
    \E p \in ProcIds :
        \/ StartRun(p)
        \/ EnsureTable(p)
        \/ GetExistingKeysOk(p)
        \/ GetExistingKeysFail(p)
        \/ FetchFail(p)
        \/ FetchPage(p)

Spec == Init /\ [][Next]_vars

\* ------------------------------------ src/gsc_to_bq.py: two processes
\* two processes of the script over an empty table and an API that holds
\* one row
InitConc ==
    /\ records = <<>>
    /\ results = <<>>
    /\ prog = "gsc_to_bq"
    /\ procs = ProcIds
    /\ table = <<>>
    /\ tableExists = FALSE
    /\ api = (Rev1Dims :> <<ApiRow(<<D1, <<"a">>, <<"/","x">> >>, 1)>>)
    /\ debug = FALSE
    /\ pc = Idle
    /\ run = [p \in ProcIds |-> 0]
    /\ existing_keys = [p \in ProcIds |-> {}]
    /\ start_row = [p \in ProcIds |-> 0]
    /\ retry_count = [p \in ProcIds |-> 0]
    /\ all_new_rows = [p \in ProcIds |-> <<>>]
    /\ batch = [p \in ProcIds |-> 1]
    /\ pending_rows = [p \in ProcIds |-> <<>>]
    /\ inserted = [p \in ProcIds |-> NoneInserted]
    /\ obs = [p \in ProcIds |-> ObsInit]

SpecConc == InitConc /\ [][Next]_vars

\* --------------------------- src/gsc_to_bq.py: metrics changed upstream
\* the rows the API holds after the clicks of ('a', '/x') have changed
RawRowsMetrics ==
    { ApiRow(<<D1, <<"a">>, <<"/","x">> >>, 2),
      ApiRow(<<D1, <<"b">>, <<"/","x">> >>, 1) }

\* the table before the run: empty, or the row of ('a', '/x') as an earlier
\* run has stored it, with the clicks of that time
StoredBefore ==
    LET r == ApiRow(<<D1, <<"a">>, <<"/","x">> >>, 1)
    IN  {<<>>, <<NewRowRev1(r, stable_key(RowDictRev1(r)))>>}

InitMetrics ==
    /\ records = <<>>
    /\ results = <<>>
    /\ prog = "gsc_to_bq"
    /\ procs = {1}
    /\ table \in StoredBefore
    /\ tableExists = (table # <<>>)
    /\ api \in {(Rev1Dims :> rs) : rs \in SeqsUpTo(RawRowsMetrics, MaxRows)}
    /\ debug = FALSE
    /\ pc = Idle
    /\ run = [p \in ProcIds |-> 0]
    /\ existing_keys = [p \in ProcIds |-> {}]
    /\ start_row = [p \in ProcIds |-> 0]
    /\ retry_count = [p \in ProcIds |-> 0]
    /\ all_new_rows = [p \in ProcIds |-> <<>>]
    /\ batch = [p \in ProcIds |-> 1]
    /\ pending_rows = [p \in ProcIds |-> <<>>]
    /\ inserted = [p \in ProcIds |-> NoneInserted]
    /\ obs = [p \in ProcIds |-> ObsInit]

SpecMetrics == InitMetrics /\ [][Next]_vars

\* ------------------------------------ src/gsc_to_bq.py: malformed rows
\* a page with a row that raises: the rows before it have been accepted into
\* all_new_rows and existing_keys, nothing of the page is uploaded (the
\* upload follows the for loop), and the exception, which no try block of
\* fetch_gsc_data or of the main block covers, ends the process
FetchPageRaises(p) ==
    /\ prog = "gsc_to_bq"
    /\ pc[p] = "fetch"
    /\ LET rows == Page(api[Rev1Dims], start_row[p])
           d == DedupRev1(RowsBeforeRaise(rows), existing_keys[p], <<>>)
       IN  /\ \E i \in 1..Len(rows) : RowRaises(rows[i])
           /\ existing_keys' = [existing_keys EXCEPT ![p] = d.existing]
           /\ all_new_rows' = [all_new_rows EXCEPT ![p] = @ \o d.new]
           /\ obs' = [obs EXCEPT
                 ![p].nreq = @ + 1,
                 ![p].last = [startRow |-> start_row[p], dims |-> Rev1Dims,
                              status |-> "ok", n |-> Len(rows)],
                 ![p].fetched = @ + Len(rows),
                 ![p].accepted = @ \o KeySeq(d.new)]
    /\ pc' = [pc EXCEPT ![p] = "crashed"]
    /\ UNCHANGED <<config, table, tableExists, run, start_row, retry_count,
                   webvars>>

\* response rows of ['date','query','page']: two whole ones, one whose
\* 'keys' list lacks the page, one without 'keys'
RawRowsMalformed ==
    { ApiRow(<<D1, <<"a">>, <<"/","x">> >>, 1),
      ApiRow(<<D1, <<"b">>, <<"/","x">> >>, 1),
      ApiRow(<<D1, <<"a">> >>, 1),
      ApiRow(<<>>, 1) }

InitMalformed ==
    /\ records = <<>>
    /\ results = <<>>
    /\ prog = "gsc_to_bq"
    /\ procs = {1}
    /\ table = <<>>
    /\ tableExists \in BOOLEAN
    /\ api \in {(Rev1Dims :> rs) : rs \in SeqsUpTo(RawRowsMalformed, MaxRows)}
    /\ debug = FALSE
    /\ pc = Idle
    /\ run = [p \in ProcIds |-> 0]
    /\ existing_keys = [p \in ProcIds |-> {}]
    /\ start_row = [p \in ProcIds |-> 0]
    /\ retry_count = [p \in ProcIds |-> 0]
    /\ all_new_rows = [p \in ProcIds |-> <<>>]
    /\ batch = [p \in ProcIds |-> 1]
    /\ pending_rows = [p \in ProcIds |-> <<>>]
    /\ inserted = [p \in ProcIds |-> NoneInserted]
    /\ obs = [p \in ProcIds |-> ObsInit]

NextMalformed ==
    \/ Next
    \/ \E p \in ProcIds : FetchPageRaises(p)

SpecMalformed == InitMalformed /\ [][NextMalformed]_vars

\* ================================================================ web
\* src/src/scripts/gsc_to_bq_searchtype_web_fullfetch.py

\* DIMENSION_BATCHES of fetch_gsc_data
DIMENSION_BATCHES ==
    << <<"date", "query", "page">>,
       <<"date", "query", "country">>,
       <<"date", "query", "device">>,
       <<"date", "query">> >>

\* the dimension list of the No-Index batch and of Batch 6
PageDims == <<"date", "page">>

AllDims == {DIMENSION_BATCHES[i] : i \in 1..Len(DIMENSION_BATCHES)} \cup {PageDims}

\* x in list
In(x, list) == \E i \in 1..Len(list) : list[i] = x

NO_INDEX == <<"_","_","N","O","_","I","N","D","E","X","_","_">>

PAGE_TOTAL == <<"_","_","P","A","G","E","_","T","O","T","A","L","_","_">>

Web == <<"w","e","b">>

\* generate_unique_key(row): date, query, page, country and device, each
\* stripped and lower-cased ('' for None), the page without trailing '/'
generate_unique_key(row) ==
    LET q == lower(strip(OrEmpty(row.Query)))
        p == rstrip(lower(strip(OrEmpty(row.Page))), {"/"})
        c == lower(strip(OrEmpty(row.Country)))
        d == lower(strip(OrEmpty(row.Device)))
        date == IF row.Date = None THEN <<"N","o","n","e">>
                ELSE Take(row.Date, 10)
    IN  sha256(join(<<"|">>, <<date, q, p, c, d>>))

\* COUNTRY_MAP, read from gsc_dim_country at import: upper-case alpha-3 code
\* to country name
COUNTRY_MAP == (<<"I","R","N">> :> <<"I","r","a","n">>)

\* map_one of robust_map_country_column.  The pycountry fall-backs look up an
\* alpha-2 code, which is no key of a map keyed by alpha-3 codes: None.
map_one(val) ==
    IF val = None THEN None
    ELSE LET s == strip(val)
         IN  IF s = <<>> THEN None
             ELSE IF lower(s) = <<"z","z","z">>
                  THEN <<"U","n","k","n","o","w","n"," ","R","e","g","i","o","n">>
             ELSE IF upper(s) \in DOMAIN COUNTRY_MAP THEN COUNTRY_MAP[upper(s)]
             ELSE None

\* robust_map_country_column(df_batch, ...), applied when 'country' is one of
\* the batch's dimensions
MapCountry(dims, rows) ==
    IF In("country", dims)
    THEN [i \in 1..Len(rows) |-> [rows[i] EXCEPT !.Country = map_one(@)]]
    ELSE rows

\* an upload_to_bq without the DEBUG_MODE test
upload_to_bq_IgnoresDebug(tbl, rows, dbg, ok) ==
    IF rows = <<>> THEN [table |-> tbl, inserted |-> 0]
    ELSE IF ok THEN [table |-> WriteAppend(tbl, rows), inserted |-> Len(rows)]
    ELSE [table |-> tbl, inserted |-> 0]

\* an upload_to_bq that returns len(df) also when the load job raised
upload_to_bq_CountsFailedLoad(tbl, rows, dbg, ok) ==
    IF rows = <<>> THEN [table |-> tbl, inserted |-> 0]
    ELSE IF dbg THEN [table |-> tbl, inserted |-> Len(rows)]
    ELSE IF ok THEN [table |-> WriteAppend(tbl, rows), inserted |-> Len(rows)]
    ELSE [table |-> tbl, inserted |-> Len(rows)]

\* upload_to_bq(df) of the web script: what it leaves in the table and what
\* it returns.  ok: the load job succeeds.
upload_to_bq(tbl, rows, dbg, ok) ==
    IF rows = <<>> THEN [table |-> tbl, inserted |-> 0]
    ELSE IF dbg THEN [table |-> tbl, inserted |-> Len(rows)]
    ELSE IF ok THEN [table |-> WriteAppend(tbl, rows), inserted |-> Len(rows)]
    ELSE [table |-> tbl, inserted |-> 0]

\* the row dictionary fetch_gsc_data builds from a response row
MainRow(dims, r) ==
    LET keys == r.keys
        third == IF Len(keys) > 2 THEN keys[3] ELSE None
    IN  [Date |-> IF Len(keys) > 0 THEN keys[1] ELSE None,
         Query |-> IF In("query", dims) /\ Len(keys) > 1 THEN keys[2] ELSE None,
         Page |-> IF In("page", dims) THEN third ELSE None,
         Country |-> IF In("country", dims) THEN third ELSE None,
         Device |-> IF In("device", dims) THEN third ELSE None,
         SearchAppearance |-> None,
         Clicks |-> r.clicks,
         SearchType |-> Web]

\* row["unique_key"] = unique_key
WithKey(row, key) ==
    [f \in DOMAIN row \cup {"unique_key"} |->
        IF f = "unique_key" THEN key ELSE row[f]]

\* a loop over one page that never adds an accepted key to existing_keys
RECURSIVE DedupMainNoAdd(_, _, _, _)
DedupMainNoAdd(dims, rows, existing, acc) ==
    IF rows = <<>> THEN [existing |-> existing, new |-> acc]
    ELSE LET row == MainRow(dims, Head(rows))
             key == generate_unique_key(row)
         IN  IF key \notin existing
             THEN DedupMainNoAdd(dims, Tail(rows), existing,
                                 Append(acc, WithKey(row, key)))
             ELSE DedupMainNoAdd(dims, Tail(rows), existing, acc)

\* the for loop of fetch_gsc_data over one page
RECURSIVE DedupMain(_, _, _, _)
DedupMain(dims, rows, existing, acc) ==
    IF rows = <<>> THEN [existing |-> existing, new |-> acc]
    ELSE LET row == MainRow(dims, Head(rows))
             key == generate_unique_key(row)
         IN  IF key \notin existing
             THEN DedupMain(dims, Tail(rows), existing \cup {key},
                            Append(acc, WithKey(row, key)))
             ELSE DedupMain(dims, Tail(rows), existing, acc)

\* whether a behaviour follows the failure of the load job of these rows:
\* upload_to_bq starts a load job for a non-empty frame when not in debug mode
UploadMayFail(p, rows) ==
    rows # <<>> /\ ~debug /\ obs[p].nupfail < MaxFailures

\* the observers of a batch that starts
ObsNewBatch(o) ==
    [o EXCEPT !.nreq = 0, !.last = NoReq, !.fetched = 0, !.nfail = 0]

\* python gsc_to_bq_searchtype_web_fullfetch.py --start-date .. --end-date ..
StartRunWeb(p) ==
    /\ prog = "web"
    /\ p \in procs
    /\ pc[p] = "idle"
    /\ pc' = [pc EXCEPT ![p] = "ensure_table"]
    /\ run' = [run EXCEPT ![p] = 1]
    /\ existing_keys' = [existing_keys EXCEPT ![p] = {}]
    /\ start_row' = [start_row EXCEPT ![p] = 0]
    /\ all_new_rows' = [all_new_rows EXCEPT ![p] = <<>>]
    /\ batch' = [batch EXCEPT ![p] = 1]
    /\ pending_rows' = [pending_rows EXCEPT ![p] = <<>>]
    /\ inserted' = [inserted EXCEPT ![p] = NoneInserted]
    /\ obs' = [obs EXCEPT ![p] = ObsInit]
    /\ UNCHANGED <<config, table, tableExists, retry_count>>

\* ensure_table of main
WebEnsureTable(p) ==
    /\ prog = "web"
    /\ pc[p] = "ensure_table"
    /\ tableExists' = TRUE
    /\ pc' = [pc EXCEPT ![p] = "get_existing_keys"]
    /\ UNCHANGED <<config, table, run, existing_keys, start_row,
                   retry_count, all_new_rows, webvars, obs>>

\* existing_keys = get_existing_keys(), once in main; the read succeeds
WebGetExistingKeysOk(p) ==
    /\ prog = "web"
    /\ pc[p] = "get_existing_keys"
    /\ existing_keys' = [existing_keys EXCEPT ![p] = KeysOf(table)]
    /\ obs' = [obs EXCEPT ![p].keys0 = KeysOf(table), ![p].readOk = TRUE,
                          ![p].nread = @ + 1]
    /\ pc' = [pc EXCEPT ![p] = "main"]
    /\ UNCHANGED <<config, table, tableExists, run, start_row,
                   retry_count, all_new_rows, webvars>>

\* get_existing_keys, the query or to_dataframe raises: set()
WebGetExistingKeysFail(p) ==
    /\ prog = "web"
    /\ pc[p] = "get_existing_keys"
    /\ existing_keys' = [existing_keys EXCEPT ![p] = {}]
    /\ obs' = [obs EXCEPT ![p].keys0 = {}, ![p].readOk = FALSE,
                          ![p].nread = @ + 1]
    /\ pc' = [pc EXCEPT ![p] = "main"]
    /\ UNCHANGED <<config, table, tableExists, run, start_row,
                   retry_count, all_new_rows, webvars>>

\* an except clause that moves start_row on by a page
MainFailAdvances(p) ==
    /\ prog = "web"
    /\ pc[p] = "main"
    /\ obs[p].nfail < MaxFailures
    /\ \E kind \in ErrorKinds :
         obs' = [obs EXCEPT
                   ![p].nreq = @ + 1,
                   ![p].last = [startRow |-> start_row[p],
                                dims |-> DIMENSION_BATCHES[batch[p]],
                                status |-> kind, n |-> 0],
                   ![p].nfail = @ + 1]
    /\ start_row' = [start_row EXCEPT ![p] = @ + ROW_LIMIT]
    /\ UNCHANGED <<config, table, tableExists, pc, run, existing_keys,
                   retry_count, all_new_rows, webvars>>

\* fetch_gsc_data, one iteration whose API call raises: sleep and repeat the
\* request, whatever the error
MainFail(p) ==
    /\ prog = "web"
    /\ pc[p] = "main"
    /\ obs[p].nfail < MaxFailures
    /\ \E kind \in ErrorKinds :
         obs' = [obs EXCEPT
                   ![p].nreq = @ + 1,
                   ![p].last = [startRow |-> start_row[p],
                                dims |-> DIMENSION_BATCHES[batch[p]],
                                status |-> kind, n |-> 0],
                   ![p].nfail = @ + 1]
    /\ UNCHANGED <<config, table, tableExists, pc, run, existing_keys,
                   start_row, retry_count, all_new_rows, webvars>>

\* fetch_gsc_data, one iteration whose API call returns
MainPage(p) ==
    /\ prog = "web"
    /\ pc[p] = "main"
    /\ LET dims == DIMENSION_BATCHES[batch[p]]
           rows == Page(api[dims], start_row[p])
           d == DedupMain(dims, rows, existing_keys[p], <<>>)
           leave == rows = <<>> \/ LastPage(Len(rows))
       IN  /\ existing_keys' = [existing_keys EXCEPT ![p] = d.existing]
           /\ all_new_rows' = [all_new_rows EXCEPT ![p] = @ \o d.new]
           /\ \E ok \in BOOLEAN :
                LET up == upload_to_bq(table, MapCountry(dims, d.new), debug, ok)
                    o == [obs[p] EXCEPT
                            !.upload = UploadObs(table, d.new, up, ok),
                            !.nreq = @ + 1,
                            !.last = [startRow |-> start_row[p], dims |-> dims,
                                      status |-> "ok", n |-> Len(rows)],
                            !.fetched = @ + Len(rows),
                            !.nfail = 0,
                            !.accepted = @ \o KeySeq(d.new),
                            !.uploadsOk = @ /\ ok,
                            !.nupfail = @ + (IF ok THEN 0 ELSE 1),
                            !.inserted = @ + (Len(up.table) - Len(table))]
                IN  /\ ~ok => UploadMayFail(p, d.new)
                    /\ table' = up.table
                    /\ inserted' = [inserted EXCEPT ![p].main = @ + up.inserted]
                    /\ obs' = [obs EXCEPT ![p] = IF leave THEN ObsNewBatch(o) ELSE o]
           /\ IF leave
              THEN /\ start_row' = [start_row EXCEPT ![p] = 0]
                   /\ IF batch[p] < Len(DIMENSION_BATCHES)
                      THEN /\ batch' = [batch EXCEPT ![p] = @ + 1]
                           /\ pc' = pc
                      ELSE /\ batch' = batch
                           /\ pc' = [pc EXCEPT ![p] = "noindex"]
              ELSE /\ start_row' = [start_row EXCEPT ![p] = @ + Len(rows)]
                   /\ batch' = batch
                   /\ pc' = pc
    /\ UNCHANGED <<config, tableExists, run, retry_count, pending_rows>>

\* the test of fetch_noindex_batch: a page that is None, empty or blank
IsNoIndexPage(page_val) == page_val = None \/ strip(page_val) = <<>>

\* the row fetch_noindex_batch builds
NoIndexRow(r) ==
    [Date |-> r.keys[1], Query |-> NO_INDEX, Page |-> NO_INDEX,
     Country |-> None, Device |-> None, SearchAppearance |-> None,
     Clicks |-> r.clicks, SearchType |-> Web]

\* the for loop of fetch_noindex_batch over one page
RECURSIVE DedupNoIndex(_, _, _)
DedupNoIndex(rows, existing, acc) ==
    IF rows = <<>> THEN [existing |-> existing, new |-> acc]
    ELSE LET r == Head(rows)
             take == Len(r.keys) = 2 /\ IsNoIndexPage(r.keys[2])
             key == generate_unique_key(NoIndexRow(r))
         IN  IF take /\ key \notin existing
             THEN DedupNoIndex(Tail(rows), existing \cup {key},
                               Append(acc, WithKey(NoIndexRow(r), key)))
             ELSE DedupNoIndex(Tail(rows), existing, acc)

\* fetch_noindex_batch, one iteration whose API call raises: sleep, repeat
NoIndexFail(p) ==
    /\ prog = "web"
    /\ pc[p] = "noindex"
    /\ obs[p].nfail < MaxFailures
    /\ \E kind \in ErrorKinds :
         obs' = [obs EXCEPT
                   ![p].nreq = @ + 1,
                   ![p].last = [startRow |-> start_row[p], dims |-> PageDims,
                                status |-> kind, n |-> 0],
                   ![p].nfail = @ + 1]
    /\ UNCHANGED <<config, table, tableExists, pc, run, existing_keys,
                   start_row, retry_count, all_new_rows, webvars>>

\* fetch_noindex_batch, one iteration whose API call returns; when the loop
\* is left, the one upload of noindex_rows and the return to main
NoIndexPage(p) ==
    /\ prog = "web"
    /\ pc[p] = "noindex"
    /\ LET rows == Page(api[PageDims], start_row[p])
           d == DedupNoIndex(rows, existing_keys[p], <<>>)
           leave == rows = <<>> \/ LastPage(Len(rows))
           noindex_rows == pending_rows[p] \o d.new
           o == [obs[p] EXCEPT
                   !.nreq = @ + 1,
                   !.last = [startRow |-> start_row[p], dims |-> PageDims,
                             status |-> "ok", n |-> Len(rows)],
                   !.fetched = @ + Len(rows),
                   !.nfail = 0,
                   !.accepted = @ \o KeySeq(d.new)]
       IN  /\ existing_keys' = [existing_keys EXCEPT ![p] = d.existing]
           /\ IF leave
              THEN \E ok \in BOOLEAN :
                     LET up == upload_to_bq(table, noindex_rows, debug, ok)
                     IN  /\ ~ok => UploadMayFail(p, noindex_rows)
                         /\ table' = up.table
                         /\ inserted' = [inserted EXCEPT ![p].noindex = up.inserted]
                         /\ obs' = [obs EXCEPT ![p] =
                              ObsNewBatch([o EXCEPT
                                 !.upload = UploadObs(table, noindex_rows, up, ok),
                                 !.uploadsOk = @ /\ ok,
                                 !.nupfail = @ + (IF ok THEN 0 ELSE 1),
                                 !.inserted = @ + (Len(up.table) - Len(table))])]
                         /\ pending_rows' = [pending_rows EXCEPT ![p] = <<>>]
                         /\ start_row' = [start_row EXCEPT ![p] = 0]
                         /\ pc' = [pc EXCEPT ![p] = "b6"]
              ELSE /\ pending_rows' = [pending_rows EXCEPT ![p] = noindex_rows]
                   /\ start_row' = [start_row EXCEPT ![p] = @ + Len(rows)]
                   /\ obs' = [obs EXCEPT ![p] = o]
                   /\ UNCHANGED <<table, inserted, pc>>
    /\ UNCHANGED <<config, tableExists, run, retry_count, all_new_rows, batch>>

\* the test of Batch 6: len(keys) == 2 and keys[1]
IsPageTotalPage(page_val) == page_val # None /\ page_val # <<>>

\* the row Batch 6 builds
PageTotalRow(r) ==
    [Date |-> r.keys[1], Query |-> PAGE_TOTAL, Page |-> r.keys[2],
     Country |-> None, Device |-> None, SearchAppearance |-> None,
     Clicks |-> r.clicks, SearchType |-> Web]

\* the for loop of Batch 6 over one page
RECURSIVE DedupB6(_, _, _)
DedupB6(rows, existing, acc) ==
    IF rows = <<>> THEN [existing |-> existing, new |-> acc]
    ELSE LET r == Head(rows)
             take == Len(r.keys) = 2 /\ IsPageTotalPage(r.keys[2])
             key == generate_unique_key(PageTotalRow(r))
         IN  IF take /\ key \notin existing
             THEN DedupB6(Tail(rows), existing \cup {key},
                          Append(acc, WithKey(PageTotalRow(r), key)))
             ELSE DedupB6(Tail(rows), existing, acc)

\* an except clause of Batch 6 that uploads the rows accepted so far
B6FailUploadsRows(p) ==
    /\ prog = "web"
    /\ pc[p] = "b6"
    /\ obs' = [obs EXCEPT ![p] = ObsNewBatch([@ EXCEPT !.aborted = TRUE])]
    /\ table' = upload_to_bq(table, pending_rows[p], debug, TRUE).table
    /\ inserted' = [inserted EXCEPT ![p].b4 = Len(pending_rows[p])]
    /\ pending_rows' = [pending_rows EXCEPT ![p] = <<>>]
    /\ start_row' = [start_row EXCEPT ![p] = 0]
    /\ pc' = [pc EXCEPT ![p] = "sitewide"]
    /\ UNCHANGED <<config, tableExists, run, existing_keys,
                   retry_count, all_new_rows, batch>>

\* Batch 6 of main, the API call raises: the except clause of the batch sets
\* inserted_b4 = 0 and main goes on to the sitewide batch (obs: the batch
\* was aborted)
B6Fail(p) ==
    /\ prog = "web"
    /\ pc[p] = "b6"
    /\ obs' = [obs EXCEPT ![p] = ObsNewBatch([@ EXCEPT !.aborted = TRUE])]
    /\ inserted' = [inserted EXCEPT ![p].b4 = 0]
    /\ pending_rows' = [pending_rows EXCEPT ![p] = <<>>]
    /\ start_row' = [start_row EXCEPT ![p] = 0]
    /\ pc' = [pc EXCEPT ![p] = "sitewide"]
    /\ UNCHANGED <<config, table, tableExists, run, existing_keys,
                   retry_count, all_new_rows, batch>>

\* Batch 6 of main, one iteration whose API call returns; when the loop is
\* left, the one upload of all_rows
B6Page(p) ==
    /\ prog = "web"
    /\ pc[p] = "b6"
    /\ LET rows == Page(api[PageDims], start_row[p])
           d == DedupB6(rows, existing_keys[p], <<>>)
           leave == rows = <<>> \/ LastPage(Len(rows))
           all_rows == pending_rows[p] \o d.new
           o == [obs[p] EXCEPT
                   !.nreq = @ + 1,
                   !.last = [startRow |-> start_row[p], dims |-> PageDims,
                             status |-> "ok", n |-> Len(rows)],
                   !.fetched = @ + Len(rows),
                   !.nfail = 0,
                   !.accepted = @ \o KeySeq(d.new)]
       IN  /\ existing_keys' = [existing_keys EXCEPT ![p] = d.existing]
           /\ IF leave
              THEN \E ok \in BOOLEAN :
                     LET up == upload_to_bq(table, all_rows, debug, ok)
                     IN  /\ ~ok => UploadMayFail(p, all_rows)
                         /\ table' = up.table
                         /\ inserted' = [inserted EXCEPT ![p].b4 = up.inserted]
                         /\ obs' = [obs EXCEPT ![p] =
                              ObsNewBatch([o EXCEPT
                                 !.upload = UploadObs(table, all_rows, up, ok),
                                 !.uploadsOk = @ /\ ok,
                                 !.nupfail = @ + (IF ok THEN 0 ELSE 1),
                                 !.inserted = @ + (Len(up.table) - Len(table))])]
                         /\ pending_rows' = [pending_rows EXCEPT ![p] = <<>>]
                         /\ start_row' = [start_row EXCEPT ![p] = 0]
                         /\ pc' = [pc EXCEPT ![p] = "sitewide"]
              ELSE /\ pending_rows' = [pending_rows EXCEPT ![p] = all_rows]
                   /\ start_row' = [start_row EXCEPT ![p] = @ + Len(rows)]
                   /\ obs' = [obs EXCEPT ![p] = o]
                   /\ UNCHANGED <<table, inserted, pc>>
    /\ UNCHANGED <<config, tableExists, run, retry_count, all_new_rows, batch>>

\* fetch_sitewide_batch(START_DATE, END_DATE, existing_keys): its first
\* statement after the client is built calls get_existing_sitewide_keys, a
\* name the module neither defines nor imports (as get_incomplete_keys on the
\* next line; and fetch_gsc_data is then called without existing_keys).  The
\* NameError is caught nowhere: main ends here with a traceback, before any
\* statement of the sitewide batch reads or writes the table.
SitewideBatch(p) ==
    /\ prog = "web"
    /\ pc[p] = "sitewide"
    /\ pc' = [pc EXCEPT ![p] = "crashed"]
    /\ UNCHANGED <<config, table, tableExists, run, existing_keys, start_row,
                   retry_count, all_new_rows, webvars, obs>>

\* ------------------------------------------------------------ web: data
Q_a == <<"a">>

\* the rows the API may hold for each dimension list of the web script.  A
\* ['date','query','page'] row with an empty page, a ['date','query','country']
\* row with an empty country and a ['date','query'] row hash the same string.
RawRowsWeb(dims) ==
    IF dims = <<"date", "query", "page">>
    THEN { ApiRow(<<D1, Q_a, <<"/","x">> >>, 1),
           ApiRow(<<D1, <<"A"," ">>, <<"/","x","/">> >>, 2),
           ApiRow(<<D1, Q_a, <<>> >>, 1) }
    ELSE IF dims = <<"date", "query", "country">>
    THEN { ApiRow(<<D1, Q_a, <<"i","r","n">> >>, 1),
           ApiRow(<<D1, Q_a, <<>> >>, 1) }
    ELSE IF dims = <<"date", "query", "device">>
    THEN { ApiRow(<<D1, Q_a, <<"M">> >>, 1),
           ApiRow(<<D1, Q_a, <<"m">> >>, 2) }
    ELSE IF dims = <<"date", "query">>
    THEN { ApiRow(<<D1, Q_a>>, 1),
           ApiRow(<<D1, <<"A">> >>, 2) }
    ELSE { ApiRow(<<D1, <<"/","x","/">> >>, 2),
           ApiRow(<<D1, <<>> >>, 1),
           ApiRow(<<D1, <<" ">> >>, 1) }

\* what the API holds for the dimension lists a behaviour does not vary
DefaultRows(dims) ==
    IF dims = <<"date", "query", "page">>
    THEN << ApiRow(<<D1, Q_a, <<"/","x">> >>, 1) >>
    ELSE IF dims = <<"date", "query", "country">>
    THEN << ApiRow(<<D1, Q_a, <<"i","r","n">> >>, 1) >>
    ELSE IF dims = <<"date", "query", "device">>
    THEN << ApiRow(<<D1, Q_a, <<"M">> >>, 1) >>
    ELSE IF dims = <<"date", "query">>
    THEN << ApiRow(<<D1, Q_a>>, 1) >>
    ELSE << ApiRow(<<D1, <<"/","x">> >>, 1), ApiRow(<<D1, <<>> >>, 1) >>

\* the API contents a behaviour of the web script starts from: for one
\* dimension list any result set of at most MaxRows rows, for the others the
\* default
WebApis ==
    UNION {{[d \in AllDims |-> IF d = hot THEN rs ELSE DefaultRows(d)] :
              rs \in SeqsUpTo(RawRowsWeb(hot), MaxRows)} : hot \in AllDims}

\* the table a run of main leaves when the API holds a, the table was tbl
\* and nothing fails: the uploads of the four dimension batches, of the
\* No-Index batch and of Batch 6, in this order
RECURSIVE MainStored(_, _, _)
MainStored(a, i, st) ==
    IF i > Len(DIMENSION_BATCHES) THEN st
    ELSE LET dims == DIMENSION_BATCHES[i]
             d == DedupMain(dims, a[dims], st.existing, <<>>)
         IN  MainStored(a, i + 1,
                        [existing |-> d.existing,
                         table |-> WriteAppend(st.table, MapCountry(dims, d.new))])

CleanRunTable(a, tbl) ==
    LET m == MainStored(a, 1, [existing |-> KeysOf(tbl), table |-> tbl])
        n == DedupNoIndex(a[PageDims], m.existing, <<>>)
        b == DedupB6(a[PageDims], n.existing, <<>>)
    IN  WriteAppend(WriteAppend(m.table, n.new), b.new)

\* the table before the run: empty, or as an earlier run left it when the API
\* held the default rows
PriorTables ==
    {<<>>, CleanRunTable([d \in AllDims |-> DefaultRows(d)], <<>>)}

\* ------------------------------------------------------------ web: Spec
InitWeb ==
    /\ records = <<>>
    /\ results = <<>>
    /\ prog = "web"
    /\ procs = {1}
    /\ table \in PriorTables
    /\ tableExists = (table # <<>>)
    /\ api \in WebApis
    /\ debug \in BOOLEAN
    /\ pc = Idle
    /\ run = [p \in ProcIds |-> 0]
    /\ existing_keys = [p \in ProcIds |-> {}]
    /\ start_row = [p \in ProcIds |-> 0]
    /\ retry_count = [p \in ProcIds |-> 0]
    /\ all_new_rows = [p \in ProcIds |-> <<>>]
    /\ batch = [p \in ProcIds |-> 1]
    /\ pending_rows = [p \in ProcIds |-> <<>>]
    /\ inserted = [p \in ProcIds |-> NoneInserted]
    /\ obs = [p \in ProcIds |-> ObsInit]

NextWeb ==
    \E p \in ProcIds :
        \/ StartRunWeb(p)
        \/ WebEnsureTable(p)
        \/ WebGetExistingKeysOk(p)
        \/ WebGetExistingKeysFail(p)
        \/ MainFail(p)
        \/ MainPage(p)
        \/ NoIndexFail(p)
        \/ NoIndexPage(p)
        \/ B6Fail(p)
        \/ B6Page(p)
        \/ SitewideBatch(p)

SpecWeb == InitWeb /\ [][NextWeb]_vars

\* --------------------------------------------------- both scripts: Spec
\* either script is deployed, and runs in one process
InitBoth == Init \/ InitWeb

NextBoth == Next \/ NextWeb

SpecBoth == InitBoth /\ [][NextBoth]_vars

\* ------------------------------------------- web: two processes at once
\* two runs of main against the same destination table, their steps
\* interleaved in any order.  The API holds rows for ['date','query','page']
\* and for ['date','page'] only, so that each run has three uploads to make.
ConcApi ==
    [d \in AllDims |->
        IF d \in {<<"date", "query", "page">>, PageDims}
        THEN DefaultRows(d) ELSE <<>>]

InitWebConc ==
    /\ records = <<>>
    /\ results = <<>>
    /\ prog = "web"
    /\ procs = ProcIds
    /\ table = <<>>
    /\ tableExists = FALSE
    /\ api = ConcApi
    /\ debug = FALSE
    /\ pc = Idle
    /\ run = [p \in ProcIds |-> 0]
    /\ existing_keys = [p \in ProcIds |-> {}]
    /\ start_row = [p \in ProcIds |-> 0]
    /\ retry_count = [p \in ProcIds |-> 0]
    /\ all_new_rows = [p \in ProcIds |-> <<>>]
    /\ batch = [p \in ProcIds |-> 1]
    /\ pending_rows = [p \in ProcIds |-> <<>>]
    /\ inserted = [p \in ProcIds |-> NoneInserted]
    /\ obs = [p \in ProcIds |-> ObsInit]

SpecWebConc == InitWebConc /\ [][NextWeb]_vars

\* ------------------------------- ensure_table, its two calls as two steps
\* bq_client.get_table(table_ref): the table is there and ensure_table
\* returns, or the call raises NotFound and the except clause is entered
EnsureGetTable(p) ==
    /\ prog = "web"
    /\ pc[p] = "ensure_table"
    /\ pc' = [pc EXCEPT ![p] = IF tableExists THEN "get_existing_keys"
                                ELSE "create_table"]
    /\ UNCHANGED <<config, table, tableExists, run, existing_keys, start_row,
                   retry_count, all_new_rows, webvars, obs>>

\* bq_client.create_table(table) in the except clause, the table still
\* missing: it is created
EnsureCreateTable(p) ==
    /\ prog = "web"
    /\ pc[p] = "create_table"
    /\ ~tableExists
    /\ tableExists' = TRUE
    /\ pc' = [pc EXCEPT ![p] = "get_existing_keys"]
    /\ UNCHANGED <<config, table, run, existing_keys, start_row,
                   retry_count, all_new_rows, webvars, obs>>

\* bq_client.create_table(table), called without exists_ok, after another
\* run has created the table: the call raises Conflict ('Already Exists')
\* inside the except clause, and the exception leaves ensure_table and main
EnsureCreateConflict(p) ==
    /\ prog = "web"
    /\ pc[p] = "create_table"
    /\ tableExists
    /\ pc' = [pc EXCEPT ![p] = "setup_failed"]
    /\ UNCHANGED <<config, table, tableExists, run, existing_keys, start_row,
                   retry_count, all_new_rows, webvars, obs>>

\* two runs of main, each call of ensure_table a step of its own
NextEnsure ==
    \E p \in ProcIds :
        \/ StartRunWeb(p)
        \/ EnsureGetTable(p)
        \/ EnsureCreateTable(p)
        \/ EnsureCreateConflict(p)
        \/ WebGetExistingKeysOk(p)
        \/ WebGetExistingKeysFail(p)
        \/ MainFail(p)
        \/ MainPage(p)
        \/ NoIndexFail(p)
        \/ NoIndexPage(p)
        \/ B6Fail(p)
        \/ B6Page(p)
        \/ SitewideBatch(p)

SpecEnsure == InitWebConc /\ [][NextEnsure]_vars

\* =============================================================== rev6
\* src/gsc_to_bq_rev6_fullfetch.py: the function main and what it calls.
\* generate_unique_key (lines 87-100), upload_to_bq (121-151) and the
\* DIMENSION_BATCHES list (160-165) are the same text as in the web script
\* (less two columns of the load schema) and are modelled by the same
\* operators.  In this script all_new_rows[p] is the list of fetch_gsc_data,
\* pending_rows[p] the list all_new_rows of fetch_sitewide_batch.

\* the dimension list of fetch_sitewide_batch
DateDims == << "date" >>

Rev6Dims == {DIMENSION_BATCHES[i] : i \in 1..Len(DIMENSION_BATCHES)} \cup {DateDims}

SITE_TOTAL == <<"_","_","S","I","T","E","_","T","O","T","A","L","_","_">>

D2 == <<"2","0","2","5","-","0","9","-","0","2">>

\* pd.date_range(start=start_date, end=end_date), each date as %Y-%m-%d
DateRange == <<D1, D2>>

\* the row dictionary fetch_gsc_data of rev6 builds from a response row
Rev6Row(dims, r) ==
    LET keys == r.keys
        third == IF Len(keys) > 2 THEN keys[3] ELSE None
    IN  [Date |-> IF Len(keys) > 0 THEN keys[1] ELSE None,
         Query |-> IF In("query", dims) /\ Len(keys) > 1 THEN keys[2] ELSE None,
         Page |-> IF In("page", dims) THEN third ELSE None,
         Country |-> IF In("country", dims) THEN third ELSE None,
         Device |-> IF In("device", dims) THEN third ELSE None,
         Clicks |-> r.clicks]

\* the for loop of fetch_gsc_data of rev6 over one page
RECURSIVE DedupRev6(_, _, _, _)
DedupRev6(dims, rows, existing, acc) ==
    IF rows = <<>> THEN [existing |-> existing, new |-> acc]
    ELSE LET row == Rev6Row(dims, Head(rows))
             key == generate_unique_key(row)
         IN  IF key \notin existing
             THEN DedupRev6(dims, Tail(rows), existing \cup {key},
                            Append(acc, WithKey(row, key)))
             ELSE DedupRev6(dims, Tail(rows), existing, acc)

\* the row fetch_sitewide_batch builds from a response row
SiteTotalRow(r) ==
    [Date |-> IF Len(r.keys) > 0 THEN r.keys[1] ELSE None,
     Query |-> SITE_TOTAL, Page |-> SITE_TOTAL,
     Country |-> None, Device |-> None, Clicks |-> r.clicks]

\* the for loop of fetch_sitewide_batch over one page
RECURSIVE DedupSitewide(_, _, _)
DedupSitewide(rows, existing, acc) ==
    IF rows = <<>> THEN [existing |-> existing, new |-> acc]
    ELSE LET row == SiteTotalRow(Head(rows))
             key == generate_unique_key(row)
         IN  IF key \notin existing
             THEN DedupSitewide(Tail(rows), existing \cup {key},
                                Append(acc, WithKey(row, key)))
             ELSE DedupSitewide(Tail(rows), existing, acc)

\* None in the Clicks column of a placeholder row.  The clicks of a response
\* row are a count and never negative.
NoClicks == -1

\* the placeholder row of a date
PlaceholderRow(date_str) ==
    [Date |-> date_str, Query |-> SITE_TOTAL, Page |-> SITE_TOTAL,
     Country |-> None, Device |-> None, Clicks |-> NoClicks]

\* Step 2 of fetch_sitewide_batch: for each date of the range no row of
\* all_new_rows has, a placeholder row, unless its key is in existing_keys
RECURSIVE AddPlaceholders(_, _, _)
AddPlaceholders(dates, rows, existing) ==
    IF dates = <<>> THEN [existing |-> existing, rows |-> rows]
    ELSE LET date_str == Head(dates)
             row == PlaceholderRow(date_str)
             key == generate_unique_key(row)
         IN  IF (\A i \in 1..Len(rows) : rows[i].Date # date_str)
                /\ key \notin existing
             THEN AddPlaceholders(Tail(dates), Append(rows, WithKey(row, key)),
                                  existing \cup {key})
             ELSE AddPlaceholders(Tail(dates), rows, existing)

\* placeholders_only: the rows of all_new_rows whose Clicks is None
RECURSIVE PlaceholdersOnly(_)
PlaceholdersOnly(rows) ==
    IF rows = <<>> THEN <<>>
    ELSE IF Head(rows).Clicks = NoClicks
         THEN <<Head(rows)>> \o PlaceholdersOnly(Tail(rows))
         ELSE PlaceholdersOnly(Tail(rows))

\* main() is called
Rev6StartRun(p) ==
    /\ prog = "rev6"
    /\ p \in procs
    /\ pc[p] = "idle"
    /\ pc' = [pc EXCEPT ![p] = "ensure_table"]
    /\ run' = [run EXCEPT ![p] = 1]
    /\ existing_keys' = [existing_keys EXCEPT ![p] = {}]
    /\ start_row' = [start_row EXCEPT ![p] = 0]
    /\ all_new_rows' = [all_new_rows EXCEPT ![p] = <<>>]
    /\ batch' = [batch EXCEPT ![p] = 1]
    /\ pending_rows' = [pending_rows EXCEPT ![p] = <<>>]
    /\ inserted' = [inserted EXCEPT ![p] = NoneInserted]
    /\ obs' = [obs EXCEPT ![p] = ObsInit]
    /\ UNCHANGED <<config, table, tableExists, retry_count>>

\* ensure_table of main
Rev6EnsureTable(p) ==
    /\ prog = "rev6"
    /\ pc[p] = "ensure_table"
    /\ tableExists' = TRUE
    /\ pc' = [pc EXCEPT ![p] = "get_existing_keys"]
    /\ UNCHANGED <<config, table, run, existing_keys, start_row,
                   retry_count, all_new_rows, webvars, obs>>

\* existing_keys = get_existing_keys(), the second statement of
\* fetch_gsc_data: every stored key, or set() when the read raises
Rev6MainGetExistingKeys(p) ==
    /\ prog = "rev6"
    /\ pc[p] = "get_existing_keys"
    /\ \E ok \in BOOLEAN :
         LET S == IF ok THEN KeysOf(table) ELSE {}
         IN  /\ existing_keys' = [existing_keys EXCEPT ![p] = S]
             /\ obs' = [obs EXCEPT ![p].keys0 = S, ![p].readOk = ok,
                                   ![p].nread = @ + 1]
    /\ pc' = [pc EXCEPT ![p] = "main"]
    /\ UNCHANGED <<config, table, tableExists, run, start_row,
                   retry_count, all_new_rows, webvars>>

\* fetch_gsc_data of rev6, one iteration whose API call raises: sleep, repeat
Rev6MainFail(p) ==
    /\ prog = "rev6"
    /\ pc[p] = "main"
    /\ obs[p].nfail < MaxFailures
    /\ \E kind \in ErrorKinds :
         obs' = [obs EXCEPT
                   ![p].nreq = @ + 1,
                   ![p].last = [startRow |-> start_row[p],
                                dims |-> DIMENSION_BATCHES[batch[p]],
                                status |-> kind, n |-> 0],
                   ![p].nfail = @ + 1]
    /\ UNCHANGED <<config, table, tableExists, pc, run, existing_keys,
                   start_row, retry_count, all_new_rows, webvars>>

\* fetch_gsc_data of rev6, one iteration whose API call returns; after the
\* last dimension list main calls fetch_sitewide_batch
Rev6MainPage(p) ==
    /\ prog = "rev6"
    /\ pc[p] = "main"
    /\ LET dims == DIMENSION_BATCHES[batch[p]]
           rows == Page(api[dims], start_row[p])
           d == DedupRev6(dims, rows, existing_keys[p], <<>>)
           leave == rows = <<>> \/ LastPage(Len(rows))
       IN  /\ existing_keys' = [existing_keys EXCEPT ![p] = d.existing]
           /\ all_new_rows' = [all_new_rows EXCEPT ![p] = @ \o d.new]
           /\ \E ok \in BOOLEAN :
                LET up == upload_to_bq(table, d.new, debug, ok)
                    o == [obs[p] EXCEPT
                            !.upload = UploadObs(table, d.new, up, ok),
                            !.nreq = @ + 1,
                            !.last = [startRow |-> start_row[p], dims |-> dims,
                                      status |-> "ok", n |-> Len(rows)],
                            !.fetched = @ + Len(rows),
                            !.nfail = 0,
                            !.accepted = @ \o KeySeq(d.new),
                            !.uploadsOk = @ /\ ok,
                            !.nupfail = @ + (IF ok THEN 0 ELSE 1),
                            !.inserted = @ + (Len(up.table) - Len(table))]
                IN  /\ ~ok => UploadMayFail(p, d.new)
                    /\ table' = up.table
                    /\ inserted' = [inserted EXCEPT ![p].main = @ + up.inserted]
                    /\ obs' = [obs EXCEPT ![p] = IF leave THEN ObsNewBatch(o) ELSE o]
           /\ IF leave
              THEN /\ start_row' = [start_row EXCEPT ![p] = 0]
                   /\ IF batch[p] < Len(DIMENSION_BATCHES)
                      THEN /\ batch' = [batch EXCEPT ![p] = @ + 1]
                           /\ pc' = pc
                      ELSE /\ batch' = batch
                           /\ pc' = [pc EXCEPT ![p] = "sitewide_keys"]
              ELSE /\ start_row' = [start_row EXCEPT ![p] = @ + Len(rows)]
                   /\ batch' = batch
                   /\ pc' = pc
    /\ UNCHANGED <<config, tableExists, run, retry_count, pending_rows>>

\* existing_keys = get_existing_keys(), the third statement of
\* fetch_sitewide_batch: the table is read again into a new set, which the
\* sitewide batch consults instead of the set of fetch_gsc_data
Rev6SitewideGetExistingKeys(p) ==
    /\ prog = "rev6"
    /\ pc[p] = "sitewide_keys"
    /\ \E ok \in BOOLEAN :
         LET S == IF ok THEN KeysOf(table) ELSE {}
         IN  /\ existing_keys' = [existing_keys EXCEPT ![p] = S]
             /\ obs' = [obs EXCEPT ![p].readOk = @ /\ ok, ![p].nread = @ + 1]
    /\ pc' = [pc EXCEPT ![p] = "sitewide"]
    /\ UNCHANGED <<config, table, tableExists, run, start_row,
                   retry_count, all_new_rows, webvars>>

\* fetch_sitewide_batch, one iteration whose API call raises: sleep, repeat
Rev6SitewideFail(p) ==
    /\ prog = "rev6"
    /\ pc[p] = "sitewide"
    /\ obs[p].nfail < MaxFailures
    /\ \E kind \in ErrorKinds :
         obs' = [obs EXCEPT
                   ![p].nreq = @ + 1,
                   ![p].last = [startRow |-> start_row[p], dims |-> DateDims,
                                status |-> kind, n |-> 0],
                   ![p].nfail = @ + 1]
    /\ UNCHANGED <<config, table, tableExists, pc, run, existing_keys,
                   start_row, retry_count, all_new_rows, webvars>>

\* fetch_sitewide_batch, one iteration whose API call returns: the new rows
\* of the page are uploaded; when the loop is left, the placeholder rows are
\* added and uploaded, the function returns and main prints the total
Rev6SitewidePage(p) ==
    /\ prog = "rev6"
    /\ pc[p] = "sitewide"
    /\ LET rows == Page(api[DateDims], start_row[p])
           d == DedupSitewide(rows, existing_keys[p], <<>>)
           leave == rows = <<>> \/ LastPage(Len(rows))
           ph == IF leave
                 THEN AddPlaceholders(DateRange, pending_rows[p] \o d.new,
                                      d.existing)
                 ELSE [existing |-> d.existing,
                       rows |-> pending_rows[p] \o d.new]
           placeholders_only ==
               IF leave THEN PlaceholdersOnly(ph.rows) ELSE <<>>
       IN  /\ existing_keys' = [existing_keys EXCEPT ![p] = ph.existing]
           /\ pending_rows' = [pending_rows EXCEPT ![p] = ph.rows]
           /\ IF leave
              THEN /\ start_row' = [start_row EXCEPT ![p] = 0]
                   /\ pc' = [pc EXCEPT ![p] = "finished"]
              ELSE /\ start_row' = [start_row EXCEPT ![p] = @ + Len(rows)]
                   /\ pc' = pc
           /\ \E ok1, ok2 \in BOOLEAN :
                LET up1 == upload_to_bq(table, d.new, debug, ok1)
                    up2 == upload_to_bq(up1.table, placeholders_only, debug, ok2)
                    nfailed == (IF ok1 THEN 0 ELSE 1) + (IF ok2 THEN 0 ELSE 1)
                IN  /\ ~ok1 => (d.new # <<>> /\ ~debug)
                    /\ ~ok2 => (placeholders_only # <<>> /\ ~debug)
                    /\ obs[p].nupfail + nfailed <= MaxFailures
                    /\ table' = up2.table
                    /\ inserted' = [inserted EXCEPT
                                      ![p].site = @ + up1.inserted + up2.inserted]
                    /\ obs' = [obs EXCEPT
                         ![p].upload = IF placeholders_only # <<>>
                                       THEN UploadObs(up1.table, placeholders_only,
                                                      up2, ok2)
                                       ELSE UploadObs(table, d.new, up1, ok1),
                         ![p].nreq = @ + 1,
                         ![p].last = [startRow |-> start_row[p], dims |-> DateDims,
                                      status |-> "ok", n |-> Len(rows)],
                         ![p].fetched = @ + Len(rows),
                         ![p].nfail = 0,
                         ![p].accepted = @ \o KeySeq(d.new)
                                           \o KeySeq(placeholders_only),
                         ![p].uploadsOk = @ /\ ok1 /\ ok2,
                         ![p].nupfail = @ + nfailed,
                         ![p].inserted = @ + (Len(up2.table) - Len(table))]
    /\ UNCHANGED <<config, tableExists, run, retry_count, all_new_rows, batch>>

\* ---------------------------------------------------------- rev6: data
\* the result sets the API may hold for ['date']: none, a short page, a full
\* page, and a full page followed by a short one
DateResults ==
    { <<>>,
      << ApiRow(<<D1>>, 1) >>,
      << ApiRow(<<D1>>, 1), ApiRow(<<D2>>, 2) >>,
      << ApiRow(<<D1>>, 1), ApiRow(<<D2>>, 2), ApiRow(<<D1>>, 3) >> }

\* the API contents a behaviour of rev6 starts from: one of the result sets
\* for ['date'], and for ['date','query','page'] nothing, one row or the row
\* and its variant; nothing for the other lists
Rev6Apis ==
    {[d \in Rev6Dims |->
        IF d = DateDims THEN rs
        ELSE IF d = <<"date", "query", "page">> THEN qp
        ELSE <<>>] :
       rs \in DateResults,
       qp \in { <<>>,
                << ApiRow(<<D1, Q_a, <<"/","x">> >>, 1) >>,
                << ApiRow(<<D1, Q_a, <<"/","x">> >>, 1),
                   ApiRow(<<D1, <<"A"," ">>, <<"/","x","/">> >>, 2) >> }}

\* the table before the run: empty, or holding the site total of D1 that an
\* earlier run stored
Rev6PriorTables ==
    {<<>>,
     << WithKey(SiteTotalRow(ApiRow(<<D1>>, 1)),
                generate_unique_key(SiteTotalRow(ApiRow(<<D1>>, 1)))) >>}

InitRev6 ==
    /\ records = <<>>
    /\ results = <<>>
    /\ prog = "rev6"
    /\ procs = {1}
    /\ table \in Rev6PriorTables
    /\ tableExists = (table # <<>>)
    /\ api \in Rev6Apis
    /\ debug \in BOOLEAN
    /\ pc = Idle
    /\ run = [p \in ProcIds |-> 0]
    /\ existing_keys = [p \in ProcIds |-> {}]
    /\ start_row = [p \in ProcIds |-> 0]
    /\ retry_count = [p \in ProcIds |-> 0]
    /\ all_new_rows = [p \in ProcIds |-> <<>>]
    /\ batch = [p \in ProcIds |-> 1]
    /\ pending_rows = [p \in ProcIds |-> <<>>]
    /\ inserted = [p \in ProcIds |-> NoneInserted]
    /\ obs = [p \in ProcIds |-> ObsInit]

NextRev6 ==
    \E p \in ProcIds :
        \/ Rev6StartRun(p)
        \/ Rev6EnsureTable(p)
        \/ Rev6MainGetExistingKeys(p)
        \/ Rev6MainFail(p)
        \/ Rev6MainPage(p)
        \/ Rev6SitewideGetExistingKeys(p)
        \/ Rev6SitewideFail(p)
        \/ Rev6SitewidePage(p)

SpecRev6 == InitRev6 /\ [][NextRev6]_vars

\* ==================================================== enhancements
\* src/scripts/upload_gsc_enhancements.py.  api holds the .xlsx files of the
\* local directory in the order of sorted(os.listdir()): of each file the
\* metadata parse_filename_metadata reads from its name and the rows
\* parse_excel_file reads from its detail sheets.  batch[p] is the index of
\* the file the loop of main is at.

Valid == <<"V","a","l","i","d">>

\* detail rows: the same URL with two items, a row with its own status, a
\* row without URL
EnhRows ==
    { [url |-> <<"/","x">>, status |-> None, item_name |-> <<"i">>],
      [url |-> <<"/","x">>, status |-> None, item_name |-> <<"j">>],
      [url |-> <<"/","x">>, status |-> Valid, item_name |-> <<"i">>],
      [url |-> None, status |-> None, item_name |-> <<"i">>] }

\* files of one site, enhancement and date, with and without 'Valid' in
\* the name, of one or two detail rows
EnhFiles ==
    { [site |-> <<"s">>, enhancement_name |-> <<"F","A","Q">>, date |-> D1,
       status_hint |-> h, rows |-> rs] :
        h \in {None, Valid}, rs \in SeqsUpTo(EnhRows, 2) \ {<<>>} }

\* the status of a row: its own, else the hint of the file name; stripped,
\* None when empty
EnhStatus(f, r) ==
    LET v == IF r.status = None THEN f.status_hint ELSE r.status
    IN  IF v = None \/ strip(v) = <<>> THEN None ELSE strip(v)

\* row_key of build_unique_key_series: site|enhancement_name|page|status|
\* last_crawled|date (no row of the model has a last_crawled)
EnhRowKey(f, r) ==
    sha256(join(<<"|">>, <<f.site, f.enhancement_name, OrEmpty(r.url),
                           OrEmpty(EnhStatus(f, r)), <<>>, f.date>>))

\* details_df of main: the rows with a URL, each with its status and its
\* unique_key
RECURSIVE EnhDetails(_, _)
EnhDetails(f, rows) ==
    IF rows = <<>> THEN <<>>
    ELSE LET r == Head(rows)
         IN  (IF r.url = None \/ strip(r.url) = <<>> THEN <<>>
              ELSE <<[url |-> r.url, status |-> EnhStatus(f, r),
                      item_name |-> r.item_name,
                      unique_key |-> EnhRowKey(f, r)]>>)
             \o EnhDetails(f, Tail(rows))

\* new_df: details_df[~details_df['unique_key'].isin(existing_keys)]
RECURSIVE EnhNewRows(_, _)
EnhNewRows(details, existing) ==
    IF details = <<>> THEN <<>>
    ELSE (IF Head(details).unique_key \in existing THEN <<>> ELSE <<Head(details)>>)
         \o EnhNewRows(Tail(details), existing)

\* main starts: ensure_table_exists()
EnhEnsureTable(p) ==
    /\ prog = "enhancements"
    /\ p \in procs
    /\ pc[p] = "idle"
    /\ tableExists' = TRUE
    /\ pc' = [pc EXCEPT ![p] = "get_existing_keys"]
    /\ run' = [run EXCEPT ![p] = 1]
    /\ UNCHANGED <<config, table, existing_keys, start_row, retry_count,
                   all_new_rows, webvars, obs>>

\* existing_keys = get_existing_unique_keys(): the stored keys, or the empty
\* set when the query raises
EnhGetExistingUniqueKeys(p) ==
    /\ prog = "enhancements"
    /\ pc[p] = "get_existing_keys"
    /\ \E ok \in BOOLEAN :
         LET ks == IF ok THEN KeysOf(table) ELSE {}
         IN  /\ existing_keys' = [existing_keys EXCEPT ![p] = ks]
             /\ obs' = [obs EXCEPT ![p].keys0 = ks, ![p].readOk = ok,
                                   ![p].nread = @ + 1]
    /\ batch' = [batch EXCEPT ![p] = 1]
    /\ pc' = [pc EXCEPT ![p] = "files"]
    /\ UNCHANGED <<config, table, tableExists, run, start_row, retry_count,
                   all_new_rows, pending_rows, inserted>>

\* one iteration of the loop over the files: the rows of the file whose key
\* is not in existing_keys are kept, then their keys are added to the set
EnhFile(p) ==
    /\ prog = "enhancements"
    /\ pc[p] = "files"
    /\ batch[p] <= Len(api)
    /\ LET f == api[batch[p]]
           new_df == EnhNewRows(EnhDetails(f, f.rows), existing_keys[p])
       IN  /\ existing_keys' = [existing_keys EXCEPT ![p] = @ \cup KeysOf(new_df)]
           /\ all_new_rows' = [all_new_rows EXCEPT ![p] = @ \o new_df]
           /\ obs' = [obs EXCEPT ![p].fetched = @ + Len(f.rows),
                                 ![p].accepted = @ \o KeySeq(new_df)]
    /\ batch' = [batch EXCEPT ![p] = @ + 1]
    /\ UNCHANGED <<config, table, tableExists, pc, run, start_row,
                   retry_count, pending_rows, inserted>>

\* after the loop: upload_to_bq(final_df) unless all_new is empty; in debug
\* mode a preview file is written instead of the load job
EnhUpload(p) ==
    /\ prog = "enhancements"
    /\ pc[p] = "files"
    /\ batch[p] > Len(api)
    /\ \E ok \in BOOLEAN :
         LET final_df == all_new_rows[p]
             stored == final_df # <<>> /\ ~debug /\ ok
         IN  /\ (final_df = <<>> \/ debug) => ok
             /\ table' = IF stored THEN WriteAppend(table, final_df) ELSE table
             /\ obs' = [obs EXCEPT
                          ![p].uploadsOk = ok,
                          ![p].inserted = IF stored THEN Len(final_df) ELSE 0]
    /\ pc' = [pc EXCEPT ![p] = "done"]
    /\ UNCHANGED <<config, tableExists, run, existing_keys, start_row,
                   retry_count, all_new_rows, webvars>>

\* the table before the run: empty, or the row of '/x' with status 'Valid'
\* as an earlier run has stored it
EnhStoredBefore ==
    LET f == [site |-> <<"s">>, enhancement_name |-> <<"F","A","Q">>,
              date |-> D1, status_hint |-> Valid]
    IN  {<<>>, EnhDetails(f, <<[url |-> <<"/","x">>, status |-> None,
                                item_name |-> <<"i">>]>>)}

InitEnh ==
    /\ records = <<>>
    /\ results = <<>>
    /\ prog = "enhancements"
    /\ procs = {1}
    /\ table \in EnhStoredBefore
    /\ tableExists = (table # <<>>)
    /\ api \in SeqsUpTo(EnhFiles, 2)
    /\ debug \in BOOLEAN
    /\ pc = Idle
    /\ run = [p \in ProcIds |-> 0]
    /\ existing_keys = [p \in ProcIds |-> {}]
    /\ start_row = [p \in ProcIds |-> 0]
    /\ retry_count = [p \in ProcIds |-> 0]
    /\ all_new_rows = [p \in ProcIds |-> <<>>]
    /\ batch = [p \in ProcIds |-> 1]
    /\ pending_rows = [p \in ProcIds |-> <<>>]
    /\ inserted = [p \in ProcIds |-> NoneInserted]
    /\ obs = [p \in ProcIds |-> ObsInit]

NextEnh ==
    \E p \in ProcIds :
        \/ EnhEnsureTable(p)
        \/ EnhGetExistingUniqueKeys(p)
        \/ EnhFile(p)
        \/ EnhUpload(p)

SpecEnh == InitEnh /\ [][NextEnh]_vars

\* ================================================== search appearance
\* src/gsc_to_bq_searchappearance_fullfetch.py.  Each run of main has its
\* own START_DATE and END_DATE: api[k] is the result set the API serves for
\* ['searchAppearance'] and the date range of the k-th run, at most
\* ROW_LIMIT rows as the one request asks.  pending_rows[p] is df_new, the
\* frame fetch_searchappearance_data returns.

\* the values of the dimension: the same value in two spellings, and another
SearchAppearances == { <<"R">>, <<"r", " ">>, <<"A">> }

\* a stable_key that hashes the value as the API spells it
stable_key_sa_Raw(row) == sha256(OrEmpty(row.SearchAppearance))

\* stable_key(row): the SearchAppearance, stripped and lower-cased
stable_key_sa(row) == sha256(lower(strip(OrEmpty(row.SearchAppearance))))

\* the for loop of fetch_searchappearance_data over the response rows
RECURSIVE DedupSa(_, _, _)
DedupSa(rows, existing, acc) ==
    IF rows = <<>> THEN [existing |-> existing, new |-> acc]
    ELSE LET r == Head(rows)
             sa == r.keys[1]
             key == stable_key_sa([SearchAppearance |-> sa])
         IN  IF key \notin existing
             THEN DedupSa(Tail(rows), existing \cup {key},
                          Append(acc, [SearchAppearance |-> sa,
                                       Clicks |-> r.clicks,
                                       unique_key |-> key]))
             ELSE DedupSa(Tail(rows), existing, acc)

\* main is called: ensure_table()
SaEnsureTable(p) ==
    /\ prog = "searchappearance"
    /\ p \in procs
    /\ pc[p] \in {"idle", "done"}
    /\ run[p] < MaxRuns
    /\ tableExists' = TRUE
    /\ run' = [run EXCEPT ![p] = @ + 1]
    /\ existing_keys' = [existing_keys EXCEPT ![p] = {}]
    /\ pending_rows' = [pending_rows EXCEPT ![p] = <<>>]
    /\ obs' = [obs EXCEPT ![p] =
                 [ObsInit EXCEPT !.prevClean =
                     \/ run[p] = 0
                     \/ /\ obs[p].prevClean /\ ~obs[p].aborted
                        /\ obs[p].readOk /\ obs[p].uploadsOk]]
    /\ pc' = [pc EXCEPT ![p] = "get_existing_keys"]
    /\ UNCHANGED <<config, table, start_row, retry_count, all_new_rows,
                   batch, inserted>>

\* existing_keys = get_existing_keys(): the stored keys, or the empty set
\* when the read raises
SaGetExistingKeys(p) ==
    /\ prog = "searchappearance"
    /\ pc[p] = "get_existing_keys"
    /\ \E ok \in BOOLEAN :
         LET ks == IF ok THEN KeysOf(table) ELSE {}
         IN  /\ existing_keys' = [existing_keys EXCEPT ![p] = ks]
             /\ obs' = [obs EXCEPT ![p].keys0 = ks, ![p].readOk = ok,
                                   ![p].nread = @ + 1]
    /\ pc' = [pc EXCEPT ![p] = "fetch"]
    /\ UNCHANGED <<config, table, tableExists, run, start_row, retry_count,
                   all_new_rows, webvars>>

\* the one request raises: fetch_searchappearance_data returns an empty
\* frame, upload_to_bq returns at once and main ends
SaFetchFail(p) ==
    /\ prog = "searchappearance"
    /\ pc[p] = "fetch"
    /\ obs' = [obs EXCEPT ![p].nreq = @ + 1, ![p].aborted = TRUE]
    /\ pc' = [pc EXCEPT ![p] = "done"]
    /\ UNCHANGED <<config, table, tableExists, run, existing_keys, start_row,
                   retry_count, all_new_rows, webvars>>

\* the one request returns: the rows whose key is not known are df_batch
SaFetch(p) ==
    /\ prog = "searchappearance"
    /\ pc[p] = "fetch"
    /\ LET rows == api[run[p]]
           d == DedupSa(rows, existing_keys[p], <<>>)
       IN  /\ existing_keys' = [existing_keys EXCEPT ![p] = d.existing]
           /\ pending_rows' = [pending_rows EXCEPT ![p] = d.new]
           /\ obs' = [obs EXCEPT ![p].nreq = @ + 1,
                                 ![p].fetched = Len(rows),
                                 ![p].accepted = KeySeq(d.new)]
    /\ pc' = [pc EXCEPT ![p] = "upload"]
    /\ UNCHANGED <<config, table, tableExists, run, start_row, retry_count,
                   all_new_rows, batch, inserted>>

\* upload_to_bq(df_new): nothing for an empty frame or in debug mode, else
\* the load job, which appends the frame or raises and is caught
SaUpload(p) ==
    /\ prog = "searchappearance"
    /\ pc[p] = "upload"
    /\ \E ok \in BOOLEAN :
         LET df_new == pending_rows[p]
             stored == df_new # <<>> /\ ~debug /\ ok
         IN  /\ (df_new = <<>> \/ debug) => ok
             /\ table' = IF stored THEN WriteAppend(table, df_new) ELSE table
             /\ obs' = [obs EXCEPT
                          ![p].uploadsOk = ok,
                          ![p].inserted = IF stored THEN Len(df_new) ELSE 0]
    /\ pc' = [pc EXCEPT ![p] = "done"]
    /\ UNCHANGED <<config, tableExists, run, existing_keys, start_row,
                   retry_count, all_new_rows, webvars>>

InitSa ==
    /\ records = <<>>
    /\ results = <<>>
    /\ prog = "searchappearance"
    /\ procs = {1}
    /\ table = <<>>
    /\ tableExists = FALSE
    /\ api \in [1..MaxRuns ->
                  {[i \in 1..Len(s) |-> ApiRow(<<s[i]>>, i)] :
                      s \in SeqsUpTo(SearchAppearances, ROW_LIMIT)}]
    /\ debug \in BOOLEAN
    /\ pc = Idle
    /\ run = [p \in ProcIds |-> 0]
    /\ existing_keys = [p \in ProcIds |-> {}]
    /\ start_row = [p \in ProcIds |-> 0]
    /\ retry_count = [p \in ProcIds |-> 0]
    /\ all_new_rows = [p \in ProcIds |-> <<>>]
    /\ batch = [p \in ProcIds |-> 1]
    /\ pending_rows = [p \in ProcIds |-> <<>>]
    /\ inserted = [p \in ProcIds |-> NoneInserted]
    /\ obs = [p \in ProcIds |-> ObsInit]

NextSa ==
    \E p \in ProcIds :
        \/ SaEnsureTable(p)
        \/ SaGetExistingKeys(p)
        \/ SaFetchFail(p)
        \/ SaFetch(p)
        \/ SaUpload(p)

SpecSa == InitSa /\ [][NextSa]_vars

\* ===================================================== the key functions
\* stable_key and generate_unique_key as pure functions: a pair of records
\* is drawn, the function is called on both, and called again.  Likewise
\* the row a script builds from a response row.

\* the times the function is called on the pair
KeyCalls == 2

\* page values without leading or trailing whitespace: no page, a path, a
\* path under a host, a path with a query string (with and without a value),
\* a path in upper case
PageCores ==
    { <<>>,
      <<"/","x">>,
      <<"/","/","E","x","/","x">>,
      <<"/","x","?","a","=","b">>,
      <<"/","x","?">>,
      <<"/","X">> }

\* a page value, with or without a blank before it, one more '/' at its end
\* and a blank after it
PageVariants(core) ==
    { lead \o core \o slash \o trail :
        lead \in {<<>>, <<" ">>}, slash \in {<<>>, <<"/">>},
        trail \in {<<>>, <<" ">>} }

KeyPages == UNION {PageVariants(core) : core \in PageCores}

KeyQueries == {<<"a">>, <<"A", " ">>, <<" ", "a">>, <<"b">>}

\* row_dict of fetch_gsc_data
RowDicts(dates, queries, pages) ==
    [Date : dates, Query : queries, Page : pages]

\* the pairs of records stable_key is called on: the first of the date D1
\* and the query 'a'
StableKeyPairs ==
    { [fn |-> "stable_key", rows |-> <<r1, r2>>] :
        r1 \in RowDicts({D1}, {Q_a}, KeyPages),
        r2 \in RowDicts({D1, D2}, KeyQueries, KeyPages) }

\* the response rows of a request for a dimension list: date, query and, for
\* a list of three, the value of the third dimension, which may be empty
KeyApiRows(dims) ==
    IF Len(dims) = 3
    THEN { ApiRow(<<D1, q, v>>, 1) : q \in {Q_a, <<"b">>}, v \in {<<>>, <<"x">>} }
    ELSE { ApiRow(<<D1, q>>, 1) : q \in {Q_a, <<"b">>} }

\* a dimension list of fetch_gsc_data with a row it builds from a response
DimsAndRow ==
    UNION { { [dims |-> DIMENSION_BATCHES[i],
               row |-> MainRow(DIMENSION_BATCHES[i], r)] :
                r \in KeyApiRows(DIMENSION_BATCHES[i]) } :
            i \in 1..Len(DIMENSION_BATCHES) }

\* the pairs of rows generate_unique_key is called on
UniqueKeyPairs ==
    { [fn |-> "generate_unique_key", dims |-> <<a.dims, b.dims>>,
       rows |-> <<a.row, b.row>>] : a \in DimsAndRow, b \in DimsAndRow }

\* dimensions_list of fetch_gsc_data of gsc_to_bq_rev5_fullfetch.py
Rev5DimensionsList ==
    << <<"date", "query", "page">>,
       <<"date", "query">>,
       <<"date", "page">>,
       <<"date", "country">>,
       <<"date", "device">>,
       <<"date", "searchAppearance">> >>

\* the values the API returns for a dimension
DimValues(dim) ==
    CASE dim = "date" -> {D1}
      [] dim = "query" -> {Q_a, <<"b">>}
      [] dim = "page" -> {<<"/", "x">>}
      [] dim = "country" -> {<<"i", "r", "n">>}
      [] dim = "device" -> {<<"M">>}
      [] dim = "searchAppearance" -> {<<"R">>}

\* the response rows of a request for dims: one key for each dimension
RowsOf(dims) ==
    { ApiRow(ks, 1) :
        ks \in { k \in [1..Len(dims) -> UNION {DimValues(dims[i]) : i \in 1..Len(dims)}] :
                    \A i \in 1..Len(dims) : k[i] \in DimValues(dims[i]) } }

\* r['keys'][i] of a row that has no such key
IndexError == [raised |-> "IndexError"]

Unknown == <<"u","n","k","n","o","w","n">>

\* row_data of gsc_to_bq_rev5_fullfetch.py: Date is keys[0], Query keys[1]
\* when 'query' is requested, Page keys[2] when 'page' is requested, and
\* Country, Device and SearchAppearance keys[1] when requested, 'unknown'
\* otherwise; an index beyond the keys of the row raises IndexError
Rev5RowData(dims, r) ==
    LET n == Len(r.keys)
        Second(dim) == IF In(dim, dims) THEN r.keys[2] ELSE None
        OrUnknown(v) == IF v = None THEN Unknown ELSE v
    IN  IF \/ n < 1
           \/ n < 2 /\ \E dim \in {"query", "country", "device", "searchAppearance"} :
                          In(dim, dims)
           \/ n < 3 /\ In("page", dims)
        THEN IndexError
        ELSE [Date |-> r.keys[1],
              Query |-> Second("query"),
              Page |-> IF In("page", dims) THEN r.keys[3] ELSE None,
              Country |-> OrUnknown(Second("country")),
              Device |-> OrUnknown(Second("device")),
              SearchAppearance |-> OrUnknown(Second("searchAppearance")),
              Clicks |-> r.clicks]

\* the response rows the two scripts build a row from, each with the
\* dimension list of its request
RowInputs ==
    UNION { { [fn |-> "row_data", dims |-> Rev5DimensionsList[i], rows |-> <<r>>] :
                r \in RowsOf(Rev5DimensionsList[i]) } :
            i \in 1..Len(Rev5DimensionsList) }
    \cup
    UNION { { [fn |-> "row", dims |-> DIMENSION_BATCHES[i], rows |-> <<r>>] :
                r \in RowsOf(DIMENSION_BATCHES[i]) } :
            i \in 1..Len(DIMENSION_BATCHES) }

\* the response rows of a request for ['date','page'] the No-Index batch and
\* Batch 6 of the web script go through: a page that is null, empty, blank,
\* a path, a path after a blank; and rows of one key and of three
PagePassInputs ==
    { [fn |-> "page_passes", dims |-> PageDims, rows |-> <<ApiRow(ks, 1)>>] :
        ks \in { <<D1, page>> : page \in {None, <<>>, <<" ">>, <<" ", " ">>,
                                          <<"/", "x">>, <<" ", "/", "x">>} }
              \cup { <<D1>>, <<D1, Q_a, <<"/", "x">> >> } }

InitKeys ==
    /\ prog = "keys"
    /\ procs = {}
    /\ records \in StableKeyPairs \cup UniqueKeyPairs \cup RowInputs
                   \cup PagePassInputs
    /\ results = <<>>
    /\ table = <<>>
    /\ tableExists = FALSE
    /\ api = <<>>
    /\ debug = FALSE
    /\ pc = Idle
    /\ run = [p \in ProcIds |-> 0]
    /\ existing_keys = [p \in ProcIds |-> {}]
    /\ start_row = [p \in ProcIds |-> 0]
    /\ retry_count = [p \in ProcIds |-> 0]
    /\ all_new_rows = [p \in ProcIds |-> <<>>]
    /\ batch = [p \in ProcIds |-> 1]
    /\ pending_rows = [p \in ProcIds |-> <<>>]
    /\ inserted = [p \in ProcIds |-> NoneInserted]
    /\ obs = [p \in ProcIds |-> ObsInit]

\* key = stable_key(row_dict), for both records of the pair
ApplyStableKey ==
    /\ prog = "keys"
    /\ records.fn = "stable_key"
    /\ Len(results) < KeyCalls
    /\ results' = Append(results, <<stable_key(records.rows[1]),
                                    stable_key(records.rows[2])>>)
    /\ UNCHANGED <<prog, procs, api, debug, records, table, tableExists, pc,
                   run, existing_keys, start_row, retry_count, all_new_rows,
                   webvars, obs>>

\* unique_key = generate_unique_key(row), for both rows of the pair
ApplyGenerateUniqueKey ==
    /\ prog = "keys"
    /\ records.fn = "generate_unique_key"
    /\ Len(results) < KeyCalls
    /\ results' = Append(results, <<generate_unique_key(records.rows[1]),
                                    generate_unique_key(records.rows[2])>>)
    /\ UNCHANGED <<prog, procs, api, debug, records, table, tableExists, pc,
                   run, existing_keys, start_row, retry_count, all_new_rows,
                   webvars, obs>>

\* row_data = {...} of gsc_to_bq_rev5_fullfetch.py
ApplyRev5RowData ==
    /\ prog = "keys"
    /\ records.fn = "row_data"
    /\ Len(results) < KeyCalls
    /\ results' = Append(results, Rev5RowData(records.dims, records.rows[1]))
    /\ UNCHANGED <<prog, procs, api, debug, records, table, tableExists, pc,
                   run, existing_keys, start_row, retry_count, all_new_rows,
                   webvars, obs>>

\* row = {...} of the web script
ApplyMainRow ==
    /\ prog = "keys"
    /\ records.fn = "row"
    /\ Len(results) < KeyCalls
    /\ results' = Append(results, MainRow(records.dims, records.rows[1]))
    /\ UNCHANGED <<prog, procs, api, debug, records, table, tableExists, pc,
                   run, existing_keys, start_row, retry_count, all_new_rows,
                   webvars, obs>>

\* the for loops of fetch_noindex_batch and of Batch 6 of the web script
\* over the same response row, each with no key known yet: the rows they
\* build and offer to existing_keys
ApplyPagePasses ==
    /\ prog = "keys"
    /\ records.fn = "page_passes"
    /\ Len(results) < KeyCalls
    /\ results' = Append(results,
                         [noindex |-> DedupNoIndex(records.rows, {}, <<>>).new,
                          b6 |-> DedupB6(records.rows, {}, <<>>).new])
    /\ UNCHANGED <<prog, procs, api, debug, records, table, tableExists, pc,
                   run, existing_keys, start_row, retry_count, all_new_rows,
                   webvars, obs>>

NextKeys ==
    \/ ApplyStableKey
    \/ ApplyGenerateUniqueKey
    \/ ApplyRev5RowData
    \/ ApplyMainRow
    \/ ApplyPagePasses

SpecKeys == InitKeys /\ [][NextKeys]_vars

\* ============================================================== claims
\* ---------------------------------------------------- src/gsc_to_bq.py
\* no two elements of a sequence are equal
NoRepeat(s) == \A i, j \in 1..Len(s) : s[i] = s[j] => i = j

\* C1: a run of gsc_to_bq.py that follows a run which was not aborted and
\* whose key read and uploads all succeeded, and whose own key read succeeds,
\* accepts no row and inserts no row (the API serves the same rows to both).
C1_SecondRunInsertsNothing ==
    \A p \in procs :
        (prog = "gsc_to_bq" /\ obs[p].prevClean /\ obs[p].readOk
         /\ pc[p] \in {"fetch", "done"})
        => /\ obs[p].inserted = 0
           /\ obs[p].accepted = <<>>
           /\ all_new_rows[p] = <<>>

\* C1 witness: the second run has ended after reading every row of a result
\* set the first run stored, and has inserted nothing
C1_Witness ==
    /\ prog = "gsc_to_bq"
    /\ run[1] = 2 /\ pc[1] = "done"
    /\ obs[1].prevClean /\ obs[1].readOk /\ ~obs[1].aborted
    /\ obs[1].fetched = Len(api[Rev1Dims])
    /\ Len(table) >= 2
    /\ obs[1].inserted = 0

\* C2 (the claim as stated): no two rows stored in the destination table
\* have the same unique_key, whatever failed in the runs so far.
C2_NoDuplicateKeysStored ==
    \A i, j \in 1..Len(table) :
        table[i].unique_key = table[j].unique_key => i = j

\* C6: once a request of gsc_to_bq.py has returned fewer than ROW_LIMIT rows
\* (or none), the loop is left: no further request is issued.
C6_StopsOnShortPage ==
    \A p \in procs :
        (prog = "gsc_to_bq" /\ obs[p].last.status = "ok"
         /\ obs[p].last.n < ROW_LIMIT)
        => pc[p] = "done"

\* C6 witness: a page of ROW_LIMIT rows, then a page of ROW_LIMIT - 1 rows,
\* no failed request: the fetch has ended after exactly two requests
C6_Witness ==
    /\ prog = "gsc_to_bq"
    /\ pc[1] = "done"
    /\ retry_count[1] = 0
    /\ obs[1].nreq = 2
    /\ obs[1].fetched = 2 * ROW_LIMIT - 1
    /\ obs[1].last.n = ROW_LIMIT - 1

\* C8 (the claim as stated): when the request of gsc_to_bq.py that failed
\* last failed transiently, and no request of the run failed fatally, the
\* fetch goes on: the page will be requested again.
C8_TransientFailureNeverEndsFetch ==
    \A p \in procs :
        (prog = "gsc_to_bq" /\ obs[p].last.status = "transient"
         /\ ~obs[p].sawFatal)
        => pc[p] = "fetch"

\* C9 (the claim as stated): a fetch of gsc_to_bq.py that was cut short by
\* the retry bound does not end the way a completed fetch ends, with
\* fetch_gsc_data returning its rows to main.
C9_AbortIsSurfaced ==
    \A p \in procs :
        (prog = "gsc_to_bq" /\ obs[p].aborted) => pc[p] # "done"

\* ---------------------------------------------------------- both scripts
\* the elements of a sequence
SetOf(s) == {s[i] : i \in 1..Len(s)}

\* the dimension list of the requests the loop a run is in issues
CurrentDims(p) ==
    IF prog = "gsc_to_bq" THEN Rev1Dims
    ELSE IF pc[p] = "main" THEN DIMENSION_BATCHES[batch[p]]
    ELSE PageDims

\* the unique_key fetch_gsc_data computes for a response row
KeyOfApiRow(dims, r) ==
    IF prog = "gsc_to_bq" THEN stable_key(RowDictRev1(r))
    ELSE generate_unique_key(MainRow(dims, r))

\* C3: in a run of fetch_gsc_data (either script) no unique_key is accepted
\* twice, no accepted unique_key was in the set get_existing_keys returned,
\* and every row of the pages processed so far has its key in that set or
\* among the accepted ones: of the rows of a page that share a key that is
\* not stored yet, exactly one is accepted.
C3_AcceptedRowsAreNew ==
    \A p \in procs :
        /\ NoRepeat(obs[p].accepted)
        /\ SetOf(obs[p].accepted) \cap obs[p].keys0 = {}
        /\ pc[p] \in {"fetch", "done", "main"} =>
             \A i \in 1..obs[p].fetched :
                 KeyOfApiRow(CurrentDims(p), api[CurrentDims(p)][i])
                     \in obs[p].keys0 \cup SetOf(obs[p].accepted)

\* C3 witness: the first page of gsc_to_bq.py held two different records
\* with the same normalized key fields, the key was not stored, and one row
\* with this key was accepted
C3_Witness ==
    /\ prog = "gsc_to_bq"
    /\ obs[1].keys0 = {}
    /\ obs[1].fetched >= 2
    /\ api[Rev1Dims][1] # api[Rev1Dims][2]
    /\ KeyOfApiRow(Rev1Dims, api[Rev1Dims][1]) = KeyOfApiRow(Rev1Dims, api[Rev1Dims][2])
    /\ obs[1].accepted = <<KeyOfApiRow(Rev1Dims, api[Rev1Dims][1])>>
    /\ Len(all_new_rows[1]) = 1

\* a step in which a request of process p raises
FailedRequest(p) ==
    /\ obs'[p].nreq = obs[p].nreq + 1
    /\ obs'[p].last.status \in ErrorKinds

\* C7: a request of fetch_gsc_data (either script) that raises leaves
\* start_row, existing_keys, the accepted rows and the table as they were;
\* after it, the request the loop issues next has the startRow and the
\* dimensions of the failed one; and the rows gsc_to_bq.py has accepted are
\* those a fetch of the same pages without any failure accepts.
C7_FailedRequestIsInvisible ==
    /\ [][\A p \in procs :
            FailedRequest(p) =>
                /\ start_row' = start_row
                /\ existing_keys' = existing_keys
                /\ all_new_rows' = all_new_rows
                /\ table' = table
                /\ webvars' = webvars
                /\ obs'[p].fetched = obs[p].fetched
                /\ obs'[p].accepted = obs[p].accepted
                /\ obs'[p].inserted = obs[p].inserted]_vars
    /\ [](\A p \in procs :
            /\ (obs[p].last.status \in ErrorKinds /\ pc[p] \in {"fetch", "main"}) =>
                  /\ obs[p].last.startRow = start_row[p]
                  /\ obs[p].last.dims = CurrentDims(p)
            /\ (prog = "gsc_to_bq" /\ pc[p] \in {"fetch", "done"}) =>
                  all_new_rows[p] =
                      DedupRev1(SubSeq(api[Rev1Dims], 1, obs[p].fetched),
                                obs[p].keys0, <<>>).new)

\* C7 witness: in a run of gsc_to_bq.py one request raised, the page was
\* requested again, and the fetch ended with every row of the result set
\* fetched and rows accepted
C7_Witness ==
    /\ prog = "gsc_to_bq"
    /\ pc[1] = "done" /\ ~obs[1].aborted
    /\ retry_count[1] = 1
    /\ obs[1].fetched = Len(api[Rev1Dims])
    /\ obs[1].fetched > ROW_LIMIT
    /\ all_new_rows[1] # <<>>

\* C10 (the claim as stated): after a request of fetch_gsc_data (either
\* script) has failed with a fatal error, the loop is left: the request is
\* not repeated.
C10_FatalErrorEndsBatch ==
    \A p \in procs :
        obs[p].last.status = "fatal" => pc[p] \notin {"fetch", "main"}

C5_KeysThreadedThroughBatches ==
    \A p \in procs :
        (prog = "web"
         /\ pc[p] \in {"main", "noindex", "b6", "sitewide", "crashed"})
        => /\ existing_keys[p] = obs[p].keys0 \cup SetOf(obs[p].accepted)
           /\ NoRepeat(obs[p].accepted)

\* C5 witness: every batch of a run has ended; a row of the
\* ['date','query','page'] batch has the unique_key of a row of the
\* ['date','query'] batch, the key was not stored before the run, and it was
\* accepted once
C5_Witness ==
    /\ prog = "web"
    /\ pc[1] = "sitewide"
    /\ obs[1].keys0 = {}
    /\ \E i \in 1..Len(api[DIMENSION_BATCHES[1]]) :
       \E j \in 1..Len(api[DIMENSION_BATCHES[4]]) :
          LET k == generate_unique_key(
                       MainRow(DIMENSION_BATCHES[1], api[DIMENSION_BATCHES[1]][i]))
          IN  /\ k = generate_unique_key(
                         MainRow(DIMENSION_BATCHES[4], api[DIMENSION_BATCHES[4]][j]))
              /\ Cardinality({n \in 1..Len(obs[1].accepted) :
                                 obs[1].accepted[n] = k}) = 1

\* ---------------------------------------------------------------- C11
\* C11: get_existing_keys never raises, and when the read of the stored keys
\* fails at any point (on submitting the query or while iterating over its
\* result) the set it returns is empty.
C11_FailedReadReturnsEmptySet ==
    \A p \in procs :
        (pc[p] \notin {"idle", "ensure_table", "get_existing_keys"}
           /\ ~obs[p].readOk)
        => obs[p].keys0 = {}

\* ---------------------------------------------------------------- C12
\* C12 as stated: whatever upload_to_bq returns is the number of rows it has
\* written to the table (the batch size on success; 0 when the load fails,
\* the batch is empty or nothing was written).
C12_ReturnsRowsWritten ==
    \A p \in procs : obs[p].upload.returned = obs[p].upload.written

\* C12 amended: outside debug mode upload_to_bq returns the number of rows it
\* has written, which is the batch size when the load job succeeds and 0 when
\* it raises or the batch is empty; in debug mode of the web script it writes
\* nothing and returns the size of the batch it would have written.
C12_ReturnsRowsWrittenUnlessDebug ==
    \A p \in procs :
        LET u == obs[p].upload
        IN  /\ u.failed => (u.returned = 0 /\ u.written = 0)
            /\ u.size = 0 => (u.returned = 0 /\ u.written = 0)
            /\ ~debug => u.returned = u.written
            /\ (~debug /\ ~u.failed) => u.written = u.size
            /\ debug => (u.written = 0 /\ u.returned = u.size)

\* a debug run has offered a non-empty batch to upload_to_bq, which wrote
\* nothing and returned the size of the batch
C12_Witness ==
    \E p \in procs :
        /\ obs[p].upload.called
        /\ obs[p].upload.size > 0
        /\ debug
        /\ obs[p].upload.returned = obs[p].upload.size
        /\ obs[p].upload.written = 0

\* ---------------------------------------------------------------- C13
\* C13: in one run of main get_existing_keys is executed exactly once, before
\* the first batch: a run that is past it has read the keys once, and never
\* reads them again.
C13_KeysReadOnce ==
    \A p \in procs :
        /\ obs[p].nread <= 1
        /\ pc[p] \notin {"idle", "ensure_table", "get_existing_keys"}
             => obs[p].nread = 1

\* ---------------------------------------------------------------- C14
\* the stages of the batch plan of main (web script), and what main does
\* after each: the four dimension lists of fetch_gsc_data, the No-Index
\* batch, Batch 6, the sitewide batch, and the final summary
AfterBatch(stage) ==
    CASE stage = "main" -> "noindex"
      [] stage = "noindex" -> "b6"
      [] stage = "b6" -> "sitewide"
      [] stage = "sitewide" -> "summary"

\* C14: whenever a batch of main ends, because its fetch or its append has
\* failed or because it is complete, main goes on to what follows the batch
\* in the plan (the failed batch is skipped, the later ones still run), and
\* the rows stored before stay stored.
C14_FailedBatchIsSkipped ==
    [][\A p \in procs :
         (prog = "web"
          /\ pc[p] \in {"main", "noindex", "b6", "sitewide"}
          /\ pc'[p] # pc[p])
         => /\ pc'[p] = AfterBatch(pc[p])
            /\ Len(table') >= Len(table)
            /\ SubSeq(table', 1, Len(table)) = table]_vars

SameButWhitespace(a, b) == strip(a) = strip(b)

\* two texts that differ only in letter case or leading/trailing whitespace
SameButCaseAndWhitespace(a, b) == lower(strip(a)) = lower(strip(b))

\* two page values that differ only in leading/trailing whitespace or in
\* one trailing '/'
SameButOneTrailingSlash(a, b) ==
    \/ strip(a) = strip(b)
    \/ strip(a) = strip(b) \o <<"/">>
    \/ strip(b) = strip(a) \o <<"/">>

\* C16: stable_key returns the same key on every call for the same record,
\* and two records of the same date get the same key when their queries
\* differ only in letter case or leading/trailing whitespace and their pages
\* differ only in leading/trailing whitespace or one trailing '/'.
C16_StableKeyNormalizes ==
    (prog = "keys" /\ records.fn = "stable_key") =>
        /\ \A i, j \in 1..Len(results) : results[i] = results[j]
        /\ \A i \in 1..Len(results) :
              ( /\ records.rows[1].Date = records.rows[2].Date
                /\ SameButCaseAndWhitespace(records.rows[1].Query,
                                            records.rows[2].Query)
                /\ SameButOneTrailingSlash(records.rows[1].Page,
                                           records.rows[2].Page) )
              => results[i][1] = results[i][2]

\* C17: batch isolation.  Two rows that fetch_gsc_data builds under different
\* dimension lists never get the same key from generate_unique_key, also
\* when the values they both carry are equal and the extra value of one of
\* them is empty.
C17_BatchIsolation ==
    (prog = "keys" /\ records.fn = "generate_unique_key"
       /\ records.dims[1] # records.dims[2]) =>
        \A i \in 1..Len(results) : results[i][1] # results[i][2]

\* row_dict of a response row with '' for each key field it lacks
RowDictOrEmpty(r) ==
    [Date |-> IF Len(r.keys) > 0 THEN r.keys[1] ELSE <<>>,
     Query |-> IF Len(r.keys) > 1 THEN r.keys[2] ELSE <<>>,
     Page |-> IF Len(r.keys) > 2 THEN r.keys[3] ELSE <<>>]

\* C18: a malformed response row ('keys' missing or shorter than the
\* dimension list) never aborts the page: no exception ends the run, and
\* every row of every page served so far has been processed, the malformed
\* ones with '' for each missing key field.
C18_MalformedRowNeverAborts ==
    \A p \in procs :
        prog = "gsc_to_bq" =>
            /\ pc[p] # "crashed"
            /\ \A i \in 1..obs[p].fetched :
                  stable_key(RowDictOrEmpty(api[Rev1Dims][i])) \in existing_keys[p]

\* C19: ensure_table is idempotent and safe when two runs call it at the
\* same time: no call of it fails, also when both runs have seen the table
\* missing, and the table is there once a run is past it.
C19_EnsureTableNeverFails ==
    \A p \in procs :
        /\ pc[p] # "setup_failed"
        /\ pc[p] \notin {"idle", "ensure_table", "create_table", "setup_failed"}
              => tableExists

\* where a run of main that has not ended stands
InMain == {"idle", "ensure_table", "get_existing_keys",
           "main", "noindex", "b6", "sitewide"}

\* C20: a run of main that has passed setup ends with the final summary (its
\* total the sum of the inserted counts of the four batches): a run that
\* is past its last batch and takes no further step has printed it.
C20_RunEndsWithFinalSummary ==
    \A p \in procs :
        (prog = "web" /\ run[p] > 0 /\ pc[p] \notin InMain)
        => pc[p] = "summary"

\* C21: when the upload of the new rows of a page fails in fetch_gsc_data of
\* gsc_to_bq.py, the table is left as it was before the upload, no exception
\* ends the run, and the loop goes on: to the next page after a full page,
\* to its end after a short one.
C21_FailedUploadLeavesTable ==
    [][\A p \in procs :
         (prog = "gsc_to_bq" /\ obs'[p].nupfail > obs[p].nupfail)
         => /\ table' = table
            /\ ~obs'[p].aborted
            /\ obs'[p].upload.failed /\ obs'[p].upload.returned = 0
            /\ IF obs'[p].last.n = ROW_LIMIT
               THEN pc'[p] = "fetch" /\ start_row'[p] = start_row[p] + ROW_LIMIT
               ELSE pc'[p] = "done"]_vars

\* C21 witness: the upload of the first page has failed, the second page has
\* been fetched and its upload has stored rows
C21_Witness ==
    /\ prog = "gsc_to_bq"
    /\ run[1] = 1
    /\ obs[1].nupfail = 1
    /\ obs[1].nreq = 2
    /\ obs[1].upload.called /\ ~obs[1].upload.failed
    /\ obs[1].upload.written > 0
    /\ Len(table) = obs[1].upload.written

\* C22: in every batch the first request has startRow 0 and each later one
\* the number of rows the successful requests of the batch have returned so
\* far; a failed request does not move it.  start_row is what the next
\* request of the loop is built from.
C22_StartRowIsRowsFetched ==
    \A p \in procs :
        pc[p] \in {"fetch", "main", "noindex", "b6"} =>
            /\ start_row[p] = obs[p].fetched
            /\ obs[p].nreq = 0 => start_row[p] = 0
            /\ obs[p].last.status = "ok" =>
                  start_row[p] = obs[p].last.startRow + obs[p].last.n
            /\ obs[p].last.status \in ErrorKinds =>
                  start_row[p] = obs[p].last.startRow

\* C22 witness: the first page of a batch of the web script was full, the
\* request for the second page has raised, and the loop is about to repeat it
C22_Witness ==
    /\ prog = "web"
    /\ pc[1] = "main"
    /\ obs[1].last.status \in ErrorKinds
    /\ obs[1].last.startRow = ROW_LIMIT
    /\ obs[1].fetched = ROW_LIMIT
    /\ start_row[1] = ROW_LIMIT

\* two stored rows of the same date, query and page
SameTuple(a, b) == a.Date = b.Date /\ a.Query = b.Query /\ a.Page = b.Page

C24_PageCaseIsFolded ==
    (prog = "keys" /\ records.fn = "stable_key") =>
        \A i \in 1..Len(results) :
            ( /\ records.rows[1].Date = records.rows[2].Date
              /\ records.rows[1].Query = records.rows[2].Query
              /\ UrlNetloc(strip(records.rows[1].Page))
                   = UrlNetloc(strip(records.rows[2].Page))
              /\ lower(records.rows[1].Page) = lower(records.rows[2].Page) )
            => results[i][1] = results[i][2]

\* C25: during a run of gsc_to_bq.py existing_keys never loses an element,
\* and a key is added when its row is accepted: over each page the set
\* grows by as many keys as rows of the page are accepted as new.
C25_KeysGrowWithAcceptedRows ==
    [][\A p \in procs :
         (prog = "gsc_to_bq" /\ pc[p] \in {"get_existing_keys", "fetch"})
         => /\ existing_keys[p] \subseteq existing_keys'[p]
            /\ pc[p] = "fetch" =>
                  Cardinality(existing_keys'[p]) - Cardinality(existing_keys[p])
                    = Len(all_new_rows'[p]) - Len(all_new_rows[p])]_vars

\* C25 witness: the first page held two rows whose keys are the same, none
\* of them stored before; one was accepted and the set has grown by 1
C25_Witness ==
    /\ prog = "gsc_to_bq"
    /\ obs[1].nreq = 1 /\ obs[1].fetched = 2
    /\ api[Rev1Dims][1].keys # api[Rev1Dims][2].keys
    /\ stable_key(RowDictRev1(api[Rev1Dims][1]))
         = stable_key(RowDictRev1(api[Rev1Dims][2]))
    /\ Len(all_new_rows[1]) = 1
    /\ Cardinality(existing_keys[1]) = Cardinality(obs[1].keys0) + 1

\* the column of the row that is named by a dimension
ColumnOf(dim) ==
    CASE dim = "date" -> "Date"
      [] dim = "query" -> "Query"
      [] dim = "page" -> "Page"
      [] dim = "country" -> "Country"
      [] dim = "device" -> "Device"
      [] dim = "searchAppearance" -> "SearchAppearance"

\* C26: for every dimension list of the plan and every response row with
\* one key for each requested dimension, building the row does not fail and
\* the row holds each key in the column named by the dimension at the same
\* position of the list.
C26_KeysStoredByDimension ==
    (prog = "keys" /\ records.fn \in {"row_data", "row"}) =>
        \A i \in 1..Len(results) :
            /\ results[i] # IndexError
            /\ \A k \in 1..Len(records.dims) :
                  results[i][ColumnOf(records.dims[k])] = records.rows[1].keys[k]

\* C27: two concurrent runs of gsc_to_bq.py are not safe against duplicate
\* insertion.  When both have read the stored keys before either has
\* appended (both got the empty set), both have fetched the row and both
\* uploads have succeeded, the table holds the row twice, under one key.
C27_ConcurrentRunsStoreTwice ==
    (/\ prog = "gsc_to_bq"
     /\ procs = ProcIds
     /\ \A p \in procs :
          /\ run[p] = 1 /\ pc[p] = "done" /\ ~obs[p].aborted
          /\ obs[p].readOk /\ obs[p].keys0 = {}
          /\ obs[p].fetched = 1 /\ obs[p].uploadsOk)
    => /\ Len(table) = 2
       /\ table[1].unique_key = table[2].unique_key
       /\ \A p \in procs : obs[p].accepted = <<table[1].unique_key>>

\* C27 witness: both runs have ended after a successful key read that
\* returned the empty set, and two stored rows have the same unique_key
C27_Witness ==
    /\ prog = "gsc_to_bq"
    /\ procs = ProcIds
    /\ \A p \in procs :
          /\ run[p] = 1 /\ pc[p] = "done"
          /\ obs[p].readOk /\ obs[p].keys0 = {} /\ obs[p].inserted = 1
    /\ \E i, j \in 1..Len(table) :
          i # j /\ table[i].unique_key = table[j].unique_key

\* C28: the frame main of upload_gsc_enhancements.py uploads holds no two
\* rows with the same unique_key, whether they come from one file or from
\* two, and no row whose unique_key was in the set get_existing_unique_keys
\* returned.
C28_EnhancementsFrameHasNoDuplicates ==
    \A p \in procs :
        prog = "enhancements" =>
            /\ NoRepeat(KeySeq(all_new_rows[p]))
            /\ SetOf(KeySeq(all_new_rows[p])) \cap obs[p].keys0 = {}

\* C29: with no failed request, the fetch of gsc_to_bq.py over a result set
\* of N rows issues floor(N / ROW_LIMIT) + 1 requests: one that returns no
\* row after the full pages when N is a positive multiple of ROW_LIMIT, one
\* request when N = 0.
C29_RequestsPerFetch ==
    \A p \in procs :
        (prog = "gsc_to_bq" /\ pc[p] = "done" /\ obs[p].nreq > 0
         /\ retry_count[p] = 0)
        => LET N == Len(api[Rev1Dims])
           IN  /\ obs[p].nreq = (N \div ROW_LIMIT) + 1
               /\ (N > 0 /\ N % ROW_LIMIT = 0) => obs[p].last.n = 0
               /\ N = 0 => obs[p].nreq = 1
               /\ obs[p].fetched = N

\* a fetch without failure over exactly one full page has ended with the
\* request that returned no row
C29_Witness ==
    \E p \in procs :
        /\ prog = "gsc_to_bq" /\ pc[p] = "done" /\ retry_count[p] = 0
        /\ Len(api[Rev1Dims]) = ROW_LIMIT
        /\ obs[p].nreq = 2 /\ obs[p].last.n = 0 /\ obs[p].last.startRow = ROW_LIMIT

\* C30: retry_count of fetch_gsc_data of gsc_to_bq.py counts the failed
\* requests of the whole fetch: a page that succeeds leaves it as it is, a
\* request that fails adds one, and the fetch is aborted by the failure that
\* makes it MAX_RETRIES + 1, whatever pages the failures hit; the abort ends
\* the loop without raising and keeps the rows accepted so far.
C30_RetryCountIsCumulative ==
    [][\A p \in procs :
         (prog = "gsc_to_bq" /\ pc[p] = "fetch" /\ obs'[p].nreq > obs[p].nreq)
         => /\ retry_count[p] <= MAX_RETRIES
            /\ obs'[p].last.status = "ok" =>
                 /\ retry_count'[p] = retry_count[p]
                 /\ ~obs'[p].aborted
            /\ obs'[p].last.status \in ErrorKinds =>
                 /\ retry_count'[p] = retry_count[p] + 1
                 /\ obs'[p].aborted <=> retry_count'[p] = MAX_RETRIES + 1
                 /\ obs'[p].aborted =>
                      /\ pc'[p] = "done"
                      /\ all_new_rows'[p] = all_new_rows[p]
                      /\ table' = table
                 /\ ~obs'[p].aborted => pc'[p] = "fetch"]_vars

\* a fetch has been aborted on its second page by a failure that was the
\* first one of that page: the earlier failures hit the first page, which
\* then succeeded
C30_Witness ==
    \E p \in procs :
        /\ prog = "gsc_to_bq" /\ pc[p] = "done" /\ obs[p].aborted
        /\ retry_count[p] = MAX_RETRIES + 1
        /\ obs[p].nfail = 1
        /\ obs[p].last.startRow = ROW_LIMIT
        /\ Len(all_new_rows[p]) = ROW_LIMIT

\* the rows a step has appended to all_new_rows of p
AcceptedNow(p) ==
    SubSeq(all_new_rows'[p], Len(all_new_rows[p]) + 1, Len(all_new_rows'[p]))

\* C31: in fetch_gsc_data of gsc_to_bq.py each page that accepts rows makes
\* one call of upload_to_bq whose frame is exactly the rows accepted from
\* that page, a page that accepts no row makes no call, and so every
\* accepted row is passed to upload_to_bq once, with its page.
C31_UploadCallHoldsThePageRows ==
    [][\A p \in procs :
         (prog = "gsc_to_bq" /\ pc[p] = "fetch"
          /\ obs'[p].nreq > obs[p].nreq /\ obs'[p].last.status = "ok")
         => /\ Len(all_new_rows'[p]) >= Len(all_new_rows[p])
            /\ SubSeq(all_new_rows'[p], 1, Len(all_new_rows[p])) = all_new_rows[p]
            /\ obs'[p].upload.called <=> AcceptedNow(p) # <<>>
            /\ obs'[p].upload.keys = KeySeq(AcceptedNow(p))
            /\ \A i \in 1..Len(all_new_rows[p]) :
                 \A j \in 1..Len(obs'[p].upload.keys) :
                    all_new_rows[p][i].unique_key # obs'[p].upload.keys[j]
            /\ ~obs'[p].upload.failed => table' = table \o AcceptedNow(p)]_vars

\* the second page of a run has been uploaded with the one row it accepted,
\* after a first page that accepted a row of its own
C31_Witness ==
    \E p \in procs :
        /\ prog = "gsc_to_bq" /\ obs[p].nreq = 2 /\ obs[p].last.status = "ok"
        /\ obs[p].fetched = ROW_LIMIT + 1
        /\ obs[p].upload.called /\ obs[p].upload.size = 1
        /\ Len(all_new_rows[p]) = 2
        /\ obs[p].upload.keys = <<all_new_rows[p][2].unique_key>>

\* C32: the key of a row of gsc_to_bq.py whose upload has failed stays in
\* existing_keys, so the row is accepted once and never offered again in
\* the run; it is in the frame the run returns, and when the run has ended
\* the table holds no row with its key.
C32_FailedRowsAreLost ==
    \A p \in procs :
        prog = "gsc_to_bq" =>
            \A k \in obs[p].lost :
                /\ k \in existing_keys[p]
                /\ Cardinality({i \in 1..Len(all_new_rows[p]) :
                                   all_new_rows[p][i].unique_key = k}) = 1
                /\ pc[p] = "done" => k \notin KeysOf(table)

\* the rows of a list that are sitewide rows of a date
SitewideRowsOf(rows, date) ==
    {i \in 1..Len(rows) : rows[i].Query = SITE_TOTAL /\ rows[i].Date = date}

\* C33: a placeholder and a real '__SITE_TOTAL__' row of one date share the
\* unique_key; a run accepts at most one sitewide row per date; and once a
\* sitewide row of a date is stored, no later run stores another one for
\* that date: the table never holds two sitewide rows of one date.
C33_OneSitewideRowPerDate ==
    /\ \A i \in 1..Len(DateRange) :
         generate_unique_key(PlaceholderRow(DateRange[i]))
           = generate_unique_key(SiteTotalRow(ApiRow(<<DateRange[i]>>, 1)))
    /\ \A p \in procs : prog = "rev6" =>
         \A i \in 1..Len(DateRange) :
            Cardinality(SitewideRowsOf(pending_rows[p], DateRange[i])) <= 1
    /\ prog = "rev6" =>
         \A i \in 1..Len(DateRange) :
            Cardinality(SitewideRowsOf(table, DateRange[i])) <= 1

\* C34: the No-Index batch and Batch 6 of the web script partition the
\* ['date','page'] response: a response row with two keys is made a
\* candidate row by the No-Index batch when its page is null, empty or
\* blank, by Batch 6 otherwise, and never by both or by neither.
C34_PagePassesPartition ==
    (prog = "keys" /\ records.fn = "page_passes"
     /\ Len(records.rows[1].keys) = 2) =>
        \A i \in 1..Len(results) :
            LET page == records.rows[1].keys[2]
                blank == page = None \/ strip(page) = <<>>
            IN  /\ Len(results[i].noindex) + Len(results[i].b6) = 1
                /\ blank => Len(results[i].noindex) = 1
                /\ ~blank => Len(results[i].b6) = 1

\* the rows the run of p has written to the table (one process runs)
WrittenByRun(p) == SubSeq(table, Len(table) - obs[p].inserted + 1, Len(table))

\* C35: when a request of Batch 6 of the web script raises, the batch is
\* left at once, without a retry and without its upload: the table stays as
\* it is, inserted_b4 is 0 and no '__PAGE_TOTAL__' row is written in the
\* run, while the keys of the rows the earlier pages of the batch accepted
\* stay in existing_keys.
C35_Batch6IsAllOrNothing ==
    /\ [][\A p \in procs :
            (prog = "web" /\ pc[p] = "b6" /\ obs'[p].aborted)
            => /\ pc'[p] = "sitewide"
               /\ table' = table
               /\ inserted'[p].b4 = 0
               /\ existing_keys'[p] = existing_keys[p]
               /\ KeysOf(pending_rows[p]) \subseteq existing_keys'[p]]_vars
    /\ [](\A p \in procs :
            (prog = "web" /\ obs[p].aborted)
            => /\ inserted[p].b4 = 0
               /\ \A i \in 1..Len(WrittenByRun(p)) :
                    WrittenByRun(p)[i].Query # PAGE_TOTAL)

\* the first page of Batch 6 accepted a row, the second request raised: the
\* key of the row is in existing_keys and no stored row has it
C35_Witness ==
    \E p \in procs :
        /\ prog = "web" /\ obs[p].aborted /\ pc[p] = "sitewide"
        /\ inserted[p].b4 = 0
        /\ \E i \in 1..Len(api[PageDims]) :
             LET k == generate_unique_key(PageTotalRow(api[PageDims][i]))
             IN  /\ IsPageTotalPage(api[PageDims][i].keys[2])
                 /\ k \in existing_keys[p]
                 /\ k \notin obs[p].keys0
                 /\ k \notin KeysOf(table)

\* the normalized SearchAppearance values of the stored rows, in load order
StoredAppearances ==
    [i \in 1..Len(table) |-> lower(strip(table[i].SearchAppearance))]

\* C36: the unique_key of the search appearance script is the hash of the
\* normalized SearchAppearance alone; over any sequence of runs in which
\* nothing has failed, whatever each date range returns, the table holds at
\* most one row per normalized value: a value that is stored is never
\* inserted again.
C36_OneRowPerSearchAppearance ==
    \A p \in procs :
        (prog = "searchappearance" /\ obs[p].prevClean /\ ~obs[p].aborted
         /\ obs[p].readOk /\ obs[p].uploadsOk)
        => /\ NoRepeat(StoredAppearances)
           /\ \A i \in 1..Len(table) :
                table[i].unique_key = sha256(StoredAppearances[i])

\* a second run over another date range has ended; its result set held, in
\* another spelling, a value the first run had stored, and the table still
\* holds one row
C36_Witness ==
    \E p \in procs :
        /\ prog = "searchappearance" /\ run[p] = 2 /\ pc[p] = "done"
        /\ obs[p].prevClean /\ ~obs[p].aborted /\ obs[p].readOk /\ obs[p].uploadsOk
        /\ ~debug
        /\ Len(api[1]) = 1 /\ Len(api[2]) = 1
        /\ api[1][1].keys[1] # api[2][1].keys[1]
        /\ obs[p].fetched = 1 /\ obs[p].accepted = <<>>
        /\ Len(table) = 1
        /\ table[1].SearchAppearance = api[1][1].keys[1]

====
